---------------------------- MODULE Spec2Model ----------------------------
(***************************************************************************)
(* Ronda attendance tracker (perumblokh/ronda).                            *)
(*                                                                         *)
(* Two variants of the application live in the repository:                 *)
(*   - the GitHub variant   (src/index.tsx, lines 1-562), and              *)
(*   - the local variant    (src/index.tsx, lines 564-959, the same code   *)
(*     as src/components/AttendanceForm.tsx and src/unnamed/part_00x).     *)
(*                                                                         *)
(* Strings are sequences of characters (one-character TLA+ strings); an    *)
(* officer's name and a weekday's name are kept as one opaque glyph each.  *)
(* Instants are counted in hours since 1970-01-01T00:00Z.                  *)
(***************************************************************************)
EXTENDS Integers, Sequences, FiniteSets, TLC

(***************************************************************************)
(* Characters, numbers and strings                                         *)
(***************************************************************************)
NL == "\n"
SP == " "
QUOTE == "\""
BSL == "\\"

DigitChars == <<"0", "1", "2", "3", "4", "5", "6", "7", "8", "9">>

\* /[0-9]/
IsDigit(c) == \E i \in 1..10 : DigitChars[i] = c

DigitVal(c) == (CHOOSE i \in 1..10 : DigitChars[i] = c) - 1

\* a Number that parseInt or getTime returns: NaN, or an integer
NaN == [nan |-> TRUE, val |-> 0]
Num(n) == [nan |-> FALSE, val |-> n]
isNaN(x) == x.nan

\* Number.prototype.toString for a non-negative integer
RECURSIVE NatToChars(_)
NatToChars(n) ==
    IF n < 10 THEN <<DigitChars[n + 1]>>
    ELSE NatToChars(n \div 10) \o <<DigitChars[(n % 10) + 1]>>

\* String(n).padStart(w, "0")
RECURSIVE PadStart(_, _)
PadStart(s, w) == IF Len(s) >= w THEN s ELSE PadStart(<<"0">> \o s, w)

\* the decimal value of a string of digits
RECURSIVE DigitsToNat(_)
DigitsToNat(s) ==
    IF s = <<>> THEN 0
    ELSE 10 * DigitsToNat(SubSeq(s, 1, Len(s) - 1)) + DigitVal(s[Len(s)])

\* the characters of s joined into one TLA+ string (an object's key)
RECURSIVE Join(_)
Join(s) == IF s = <<>> THEN "" ELSE Head(s) \o Join(Tail(s))

\* the longest prefix of s made of digits
RECURSIVE DigitPrefix(_)
DigitPrefix(s) ==
    IF s = <<>> \/ ~IsDigit(Head(s)) THEN <<>>
    ELSE <<Head(s)>> \o DigitPrefix(Tail(s))

\* parseInt(s, 10) of a string without sign or leading blanks: the value of
\* the leading digits, NaN when s does not start with a digit
parseInt(s) ==
    IF DigitPrefix(s) = <<>> THEN NaN ELSE Num(DigitsToNat(DigitPrefix(s)))

\* a handler that keeps every character typed
KeepAllChars(s) == s

\* value.replace(/[^0-9]/g, '')
StripNonDigits(s) == SelectSeq(s, IsDigit)

(***************************************************************************)
(* Calendar: Date, toISOString, getDay, new Date(string).getTime()         *)
(***************************************************************************)
HoursPerDay == 24

\* the weekday of 1970-01-01 (a Thursday)
EpochWeekday == 4

IsLeap(y) == (y % 4 = 0 /\ y % 100 # 0) \/ y % 400 = 0

DaysInMonth(y, m) ==
    IF m = 2 THEN (IF IsLeap(y) THEN 29 ELSE 28)
    ELSE IF m \in {4, 6, 9, 11} THEN 30 ELSE 31

\* days from 1970-01-01 to the civil date y-m-d (proleptic Gregorian)
DaysFromCivil(y, m, d) ==
    LET yy  == IF m <= 2 THEN y - 1 ELSE y
        era == yy \div 400
        yoe == yy - era * 400
        mp  == (m + 9) % 12
        doy == (153 * mp + 2) \div 5 + d - 1
        doe == yoe * 365 + yoe \div 4 - yoe \div 100 + doy
    IN  era * 146097 + doe - 719468

\* the civil date of the day z days after 1970-01-01
CivilFromDays(z) ==
    LET zz  == z + 719468
        era == zz \div 146097
        doe == zz - era * 146097
        yoe == (doe - doe \div 1460 + doe \div 36524 - doe \div 146096) \div 365
        doy == doe - (365 * yoe + yoe \div 4 - yoe \div 100)
        mp  == (5 * doy + 2) \div 153
        d   == doy - (153 * mp + 2) \div 5 + 1
        m   == IF mp < 10 THEN mp + 3 ELSE mp - 9
        y   == yoe + era * 400 + (IF m <= 2 THEN 1 ELSE 0)
    IN  [y |-> y, m |-> m, d |-> d]

\* date.toISOString().split('T')[0] : the UTC calendar date of instant t
ISODate(t) ==
    LET c == CivilFromDays(t \div HoursPerDay)
    IN  PadStart(NatToChars(c.y), 4) \o <<"-">> \o PadStart(NatToChars(c.m), 2)
          \o <<"-">> \o PadStart(NatToChars(c.d), 2)

\* date.toISOString() : the UTC date and time of instant t
ISOString(t) ==
    ISODate(t) \o <<"T">> \o PadStart(NatToChars(t % HoursPerDay), 2)
      \o <<":", "0", "0", ":", "0", "0", ".", "0", "0", "0", "Z">>

\* date.getDay() : the weekday of instant t in the local time zone, off hours
\* east of UTC
getDay(t, off) == (EpochWeekday + ((t + off) \div HoursPerDay)) % 7

\* new Date(s).getTime() for a date-only string "YYYY-MM-DD" (read as UTC),
\* NaN for a string of another form
DateGetTime(s) ==
    IF /\ Len(s) = 10
       /\ s[5] = "-" /\ s[8] = "-"
       /\ \A i \in {1, 2, 3, 4, 6, 7, 9, 10} : IsDigit(s[i])
    THEN LET y == DigitsToNat(SubSeq(s, 1, 4))
             m == DigitsToNat(SubSeq(s, 6, 7))
             d == DigitsToNat(SubSeq(s, 9, 10))
         IN  IF m \in 1..12 /\ d \in 1..DaysInMonth(y, m)
             THEN Num(DaysFromCivil(y, m, d) * HoursPerDay)
             ELSE NaN
    ELSE NaN

\* the weekday of the calendar date written in s
WeekdayOfDate(s) == (EpochWeekday + DateGetTime(s).val \div HoursPerDay) % 7

(***************************************************************************)
(* JSON.stringify(value, null, 2)                                          *)
(***************************************************************************)
RECURSIVE Spaces(_)
Spaces(n) == IF n = 0 THEN <<>> ELSE <<SP>> \o Spaces(n - 1)

\* the escapes of a string's characters (quote, backslash, line feed)
RECURSIVE Escape(_)
Escape(s) ==
    IF s = <<>> THEN <<>>
    ELSE (IF Head(s) = QUOTE THEN <<BSL, QUOTE>>
          ELSE IF Head(s) = BSL THEN <<BSL, BSL>>
          ELSE IF Head(s) = NL THEN <<BSL, "n">>
          ELSE <<Head(s)>>) \o Escape(Tail(s))

JsonString(s) == <<QUOTE>> \o Escape(s) \o <<QUOTE>>

\* texts[1], texts[2], ... separated by a comma and a line break at indent ind
RECURSIVE JoinLines(_, _)
JoinLines(texts, ind) ==
    IF Len(texts) = 0 THEN <<>>
    ELSE IF Len(texts) = 1 THEN Spaces(ind) \o texts[1]
    ELSE Spaces(ind) \o texts[1] \o <<",", NL>> \o JoinLines(Tail(texts), ind)

\* an array whose elements are already written (at indent ind + 2)
JsonArray(texts, ind) ==
    IF Len(texts) = 0 THEN <<"[", "]">>
    ELSE <<"[", NL>> \o JoinLines(texts, ind + 2) \o <<NL>> \o Spaces(ind) \o <<"]">>

\* an object whose members, <<key, value text>>, are already written
JsonObject(members, ind) ==
    IF Len(members) = 0 THEN <<"{", "}">>
    ELSE <<"{", NL>>
         \o JoinLines([i \in 1..Len(members) |->
                         JsonString(members[i][1]) \o <<":", SP>> \o members[i][2]],
                      ind + 2)
         \o <<NL>> \o Spaces(ind) \o <<"}">>

JsonStringArray(names, ind) ==
    JsonArray([i \in 1..Len(names) |-> JsonString(names[i])], ind)

JsonOfficer(o, ind) ==
    JsonObject(<< <<(<<"n", "a", "m", "e">>), JsonString(o.name)>>,
                  <<(<<"s", "t", "a", "t", "u", "s">>), JsonString(o.status)>> >>, ind)

\* an AttendanceRecord: its keys in the order handleSubmit creates them
JsonRecord(r, ind) ==
    JsonObject(<<
        <<(<<"i", "d">>), JsonString(r.id)>>,
        <<(<<"d", "a", "t", "e">>), JsonString(r.date)>>,
        <<(<<"d", "a", "y">>), JsonString(r.day)>>,
        <<(<<"o", "f", "f", "i", "c", "e", "r", "s">>),
          JsonArray([i \in 1..Len(r.officers) |-> JsonOfficer(r.officers[i], ind + 4)],
                    ind + 2)>>,
        <<(<<"n", "o", "t", "e", "s">>), JsonString(r.notes)>>,
        <<(<<"c", "o", "l", "l", "e", "c", "t", "i", "o", "n">>),
          NatToChars(r.collection)>> >>, ind)

\* JSON.stringify(records, null, 2)
StringifyRecords(recs) ==
    JsonArray([i \in 1..Len(recs) |-> JsonRecord(recs[i], 2)], 0)

\* the keys of a schedule in the order JSON.stringify writes them (integer
\* keys ascending)
RECURSIVE ScheduleMembers(_, _)
ScheduleMembers(sched, d) ==
    IF d > 6 THEN <<>>
    ELSE (IF Join(NatToChars(d)) \in DOMAIN sched
          THEN << <<NatToChars(d), JsonStringArray(sched[Join(NatToChars(d))], 2)>> >>
          ELSE <<>>) \o ScheduleMembers(sched, d + 1)

\* JSON.stringify(schedule, null, 2)
StringifySchedule(sched) == JsonObject(ScheduleMembers(sched, 0), 0)

(***************************************************************************)
(* JSON.stringify(value)                                                   *)
(***************************************************************************)
\* texts[1], texts[2], ... separated by commas
RECURSIVE JoinCommas(_)
JoinCommas(texts) ==
    IF Len(texts) = 0 THEN <<>>
    ELSE IF Len(texts) = 1 THEN texts[1]
    ELSE texts[1] \o <<",">> \o JoinCommas(Tail(texts))

CompactArray(texts) == <<"[">> \o JoinCommas(texts) \o <<"]">>

CompactObject(members) ==
    <<"{">>
    \o JoinCommas([i \in 1..Len(members) |->
                     JsonString(members[i][1]) \o <<":">> \o members[i][2]])
    \o <<"}">>

CompactOfficer(o) ==
    CompactObject(<< <<(<<"n", "a", "m", "e">>), JsonString(o.name)>>,
                     <<(<<"s", "t", "a", "t", "u", "s">>), JsonString(o.status)>> >>)

CompactRecord(r) ==
    CompactObject(<<
        <<(<<"i", "d">>), JsonString(r.id)>>,
        <<(<<"d", "a", "t", "e">>), JsonString(r.date)>>,
        <<(<<"d", "a", "y">>), JsonString(r.day)>>,
        <<(<<"o", "f", "f", "i", "c", "e", "r", "s">>),
          CompactArray([i \in 1..Len(r.officers) |-> CompactOfficer(r.officers[i])])>>,
        <<(<<"n", "o", "t", "e", "s">>), JsonString(r.notes)>>,
        <<(<<"c", "o", "l", "l", "e", "c", "t", "i", "o", "n">>),
          NatToChars(r.collection)>> >>)

\* JSON.stringify(records)
StringifyCompact(recs) ==
    CompactArray([i \in 1..Len(recs) |-> CompactRecord(recs[i])])

(***************************************************************************)
(* JSON.parse                                                              *)
(***************************************************************************)
ParseFail == [ok |-> FALSE, kind |-> "none", val |-> 0, pos |-> 0]

ParseOk(kind, val, pos) == [ok |-> TRUE, kind |-> kind, val |-> val, pos |-> pos]

RECURSIVE SkipWs(_, _)
SkipWs(t, i) ==
    IF i <= Len(t) /\ t[i] \in {SP, NL} THEN SkipWs(t, i + 1) ELSE i

\* the characters of a string literal from position j on, up to its closing quote
RECURSIVE ParseStringBody(_, _, _)
ParseStringBody(t, j, acc) ==
    IF j > Len(t) THEN ParseFail
    ELSE IF t[j] = QUOTE THEN ParseOk("str", acc, j + 1)
    ELSE IF t[j] = NL THEN ParseFail
    ELSE IF t[j] = BSL
         THEN IF j + 1 > Len(t) THEN ParseFail
              ELSE IF t[j + 1] \in {QUOTE, BSL, "/"}
                   THEN ParseStringBody(t, j + 2, Append(acc, t[j + 1]))
              ELSE IF t[j + 1] = "n"
                   THEN ParseStringBody(t, j + 2, Append(acc, NL))
              ELSE ParseFail
    ELSE ParseStringBody(t, j + 1, Append(acc, t[j]))

RECURSIVE DigitsEnd(_, _)
DigitsEnd(t, i) == IF i <= Len(t) /\ IsDigit(t[i]) THEN DigitsEnd(t, i + 1) ELSE i

\* an integer: -? ( 0 | [1-9][0-9]* )
ParseNumber(t, i) ==
    LET neg == t[i] = "-"
        s   == IF neg THEN i + 1 ELSE i
        e   == IF s <= Len(t) /\ t[s] = "0" THEN s + 1 ELSE DigitsEnd(t, s)
    IN  IF e = s THEN ParseFail
        ELSE ParseOk("num",
                     IF neg THEN 0 - DigitsToNat(SubSeq(t, s, e - 1))
                     ELSE DigitsToNat(SubSeq(t, s, e - 1)),
                     e)

\* whether the characters of word stand at position i of t
StartsWith(t, i, word) ==
    /\ i + Len(word) - 1 <= Len(t)
    /\ \A k \in 1..Len(word) : t[i + k - 1] = word[k]

ParseLiteral(t, i) ==
    IF StartsWith(t, i, <<"t", "r", "u", "e">>) THEN ParseOk("lit", TRUE, i + 4)
    ELSE IF StartsWith(t, i, <<"f", "a", "l", "s", "e">>) THEN ParseOk("lit", FALSE, i + 5)
    ELSE IF StartsWith(t, i, <<"n", "u", "l", "l">>) THEN ParseOk("lit", "null", i + 4)
    ELSE ParseFail

\* the object of the members read: a later member of the same key wins
ObjectOf(members) ==
    [key \in {members[n].k : n \in 1..Len(members)} |->
        members[CHOOSE n \in 1..Len(members) :
                   /\ members[n].k = key
                   /\ \A m \in 1..Len(members) : members[m].k = key => m <= n].v]

RECURSIVE ParseValue(_, _), ParseElements(_, _, _), ParseMembers(_, _, _)

\* the elements of an array from position i on (the first one starts at i)
ParseElements(t, i, acc) ==
    LET v == ParseValue(t, i)
        k == SkipWs(t, v.pos)
    IN  IF ~v.ok \/ k > Len(t) THEN ParseFail
        ELSE IF t[k] = "," THEN ParseElements(t, SkipWs(t, k + 1), Append(acc, v.val))
        ELSE IF t[k] = "]" THEN ParseOk("arr", Append(acc, v.val), k + 1)
        ELSE ParseFail

\* the members of an object from position i on (the first key starts at i)
ParseMembers(t, i, acc) ==
    IF i > Len(t) \/ t[i] # QUOTE THEN ParseFail
    ELSE LET key == ParseStringBody(t, i + 1, <<>>)
             c   == SkipWs(t, key.pos)
         IN  IF ~key.ok \/ c > Len(t) \/ t[c] # ":" THEN ParseFail
             ELSE LET v   == ParseValue(t, SkipWs(t, c + 1))
                      k   == SkipWs(t, v.pos)
                      all == Append(acc, [k |-> Join(key.val), v |-> v.val])
                  IN  IF ~v.ok \/ k > Len(t) THEN ParseFail
                      ELSE IF t[k] = "," THEN ParseMembers(t, SkipWs(t, k + 1), all)
                      ELSE IF t[k] = "}" THEN ParseOk("obj", ObjectOf(all), k + 1)
                      ELSE ParseFail

ParseValue(t, i) ==
    IF i > Len(t) THEN ParseFail
    ELSE IF t[i] = QUOTE THEN ParseStringBody(t, i + 1, <<>>)
    ELSE IF t[i] = "[" THEN
         (LET j == SkipWs(t, i + 1)
          IN  IF j <= Len(t) /\ t[j] = "]" THEN ParseOk("arr", <<>>, j + 1)
              ELSE ParseElements(t, j, <<>>))
    ELSE IF t[i] = "{" THEN
         (LET j == SkipWs(t, i + 1)
          IN  IF j <= Len(t) /\ t[j] = "}" THEN ParseOk("obj", <<>>, j + 1)
              ELSE ParseMembers(t, j, <<>>))
    ELSE IF t[i] = "-" \/ IsDigit(t[i]) THEN ParseNumber(t, i)
    ELSE ParseLiteral(t, i)

\* a parse that reads a text that is not JSON as the empty list
JSONparseLenient(t) ==
    LET v == ParseValue(t, SkipWs(t, 1))
    IN  IF v.ok /\ SkipWs(t, v.pos) = Len(t) + 1 THEN v ELSE ParseOk("arr", <<>>, 1)

\* JSON.parse(text): ok = FALSE stands for the SyntaxError it throws
JSONparse(t) ==
    LET v == ParseValue(t, SkipWs(t, 1))
    IN  IF v.ok /\ SkipWs(t, v.pos) = Len(t) + 1 THEN v ELSE ParseFail

(***************************************************************************)
(* Types and constants of the application                                  *)
(***************************************************************************)
\* enum AttendanceStatus
Hadir == <<"Hadir">>
Ijin == <<"Ijin">>
Alpa == <<"Alpa">>

AttendanceStatus == {Hadir, Ijin, Alpa}

NAMA_HARI ==
    [d \in 0..6 |->
        CASE d = 0 -> "Minggu" [] d = 1 -> "Senin" [] d = 2 -> "Selasa"
          [] d = 3 -> "Rabu" [] d = 4 -> "Kamis" [] d = 5 -> "Jumat"
          [] d = 6 -> "Sabtu"]

\* the key of weekday d in a Schedule object
DayKey(d) == Join(NatToChars(d))

DEFAULT_JADWAL_RONDA ==
    [k \in {DayKey(d) : d \in 0..6} |->
        CASE k = "1" -> << <<"Bp Aris H01">>, <<"Bp Asep H03">>, <<"Bp Iyeng H04">>,
                           <<"Bp Yayan">>, <<"Bp Erik">> >>
          [] k = "2" -> << <<"Bp Ma'ruf">>, <<"Bp Sunara">>, <<"Bp Eka">> >>
          [] k = "3" -> << <<"Bp Ujang Nur">>, <<"Bp Lili">>, <<"Bp Kosim">>,
                           <<"Bp Asep Sarboah">> >>
          [] k = "4" -> << <<"Bp Didin">>, <<"Bp Hamzah">>, <<"Bp Amrin">>,
                           <<"Bp Aden">>, <<"Bp Nanda">> >>
          [] k = "5" -> << <<"Bp Ujang Guru">>, <<"Bp Wawan">>, <<"Bp Riyan">>,
                           <<"Bp Asep H62">>, <<"Bp Irwan">>, <<"Bp Carkaya">>,
                           <<"Bp Andre">> >>
          [] k = "6" -> << <<"Bp Imam Kurtubi">>, <<"Bp Ayo">>, <<"Bp Ajo">>,
                           <<"Bp Rizki">> >>
          [] k = "0" -> << <<"Bp Haji Udin">>, <<"Bp Imam H47">>, <<"Bp Ikhsan">>,
                           <<"Bp Rastam">> >>]

\* the roster of the local variant (constants.ts)
JADWAL_RONDA == DEFAULT_JADWAL_RONDA

\* the texts of the alerts
AlertNone == "none"
AlertAlreadyFilled == "Absensi untuk hari ini sudah diisi."
AlertSaved == "Data absensi berhasil disimpan!"
AlertSaveFailed == "Gagal menyimpan absensi"
AlertLoadFailed == "Gagal memuat data dari GitHub"
AlertScheduleSaved == "Jadwal berhasil diperbarui!"
AlertScheduleSaveFailed == "Gagal menyimpan jadwal"
AlertImported == "Data berhasil diimpor!"
AlertBadFormat == "Format file JSON tidak valid."
AlertBadJson == "Gagal membaca file JSON. Pastikan formatnya benar."

\* `undefined` as a version token, and the blob SHA of a content: the store's
\* token is a hash of the content, kept here as the content itself
NoSha == <<>>
ShaOf(text) == <<"sha:">> \o text

\* a document of the remote store that does not exist, and one that does
AbsentDoc == [exists |-> FALSE, text |-> <<>>]
Doc(text) == [exists |-> TRUE, text |-> text]

Range(f) == {f[i] : i \in DOMAIN f}

(***************************************************************************)
(* Bounds of the model                                                     *)
(***************************************************************************)
\* ticks of the clock in one behaviour
MaxTicks == 1
\* the length of the texts typed in the collection input, of the lists shown
\* in the recap, and of the lists imported
MaxTyped == 2
MaxListed == 2
MaxImported == 1
\* edits of the form's fields in one behaviour
MaxEdits == 1
\* officers of the roster whose radio buttons are used
MaxMarked == 1
\* additions and removals in the schedule editor in one behaviour
MaxEditorOps == 3
\* additions and removals before the saves of the schedule in one behaviour
MaxScheduleEdits == 1
\* requests that fail in transport in one behaviour
MaxFailures == 1
\* commits another writer makes to data.json in one behaviour
MaxOtherWrites == 1
\* calls of the application in flight together
MaxCalls == 2

\* the first instant of a behaviour, 2024-01-01T00:00Z (a Monday), and the
\* clock's step
StartHour == DaysFromCivil(2024, 1, 1) * HoursPerDay
TickHours == HoursPerDay - 6

\* hours east of UTC: UTC and WIB
TimeZones == {0, 7}

(***************************************************************************)
(* localStorage of the local variant                                       *)
(***************************************************************************)
\* the characters an item of the storage may hold: setItem throws a
\* QuotaExceededError for a longer value
StorageQuota == 480

\* the item under a key: none (getItem returns null), a text, or a storage
\* the browser denies (getItem and setItem throw)
NoItem == [kind |-> "null", text |-> <<>>]
Item(text) == [kind |-> "string", text |-> text]
Blocked == [kind |-> "blocked", text |-> <<>>]

\* the item after localStorage.setItem(key, value) inside try/catch: an
\* exception is logged and the item stays what it was
setItem(item, value) ==
    IF item.kind = "blocked" \/ Len(value) > StorageQuota THEN item ELSE Item(value)

\* the initializer of the records state: savedRecords ? JSON.parse(savedRecords)
\* : [], and [] when getItem or JSON.parse throws
savedRecordsOf(item) ==
    IF item.kind # "string" \/ item.text = <<>> THEN <<>>
    ELSE IF JSONparse(item.text).ok THEN JSONparse(item.text).val ELSE <<>>

(***************************************************************************)
(* State                                                                   *)
(***************************************************************************)
VARIABLES
    variant,        \* "local" or "github": which App is running
    now,            \* the clock
    tz,             \* the browser's time zone, hours east of UTC
    today,          \* `today` of AttendanceForm's latest render
    records,        \* App: records
    schedule,       \* App: schedule (github), JADWAL_RONDA (local)
    scheduleIsDefault, \* the schedule state is the object DEFAULT_JADWAL_RONDA
    statuses,       \* AttendanceForm: statuses
    notes,          \* AttendanceForm: notes
    collection,     \* AttendanceForm: collection
    typed,          \* the text in the collection input as the user typed it
    filterDate,     \* AttendanceRecap: filterDate
    alertMsg,       \* the text of the latest alert
    op,             \* the handler that ran last
    download,       \* the file handleDownload saved last: its text, and the
                    \* records it was made of
    file,           \* the text of the file handleUpload read last
    githubSettings, \* App: githubSettings (github)
    savedSettings,  \* localStorage 'githubSettings'
    showSettings,   \* App: showSettings
    isInitialized,  \* App: isInitialized
    recordsSha,     \* App: recordsSha.current
    scheduleSha,    \* App: scheduleSha.current
    spinner,        \* whether the spinner element is displayed
    calls,          \* the async calls of the application that await a response
    remote,         \* the two documents of the repository
    edits,          \* edits of the form and of the schedule editor so far
    failures,       \* transport failures so far
    otherWrites,    \* commits of the other writer so far
    showScheduleEditor, \* App: showScheduleEditor
    modalSchedule,  \* ScheduleEditorModal: schedule
    newOfficerName, \* ScheduleEditorModal: newOfficerName
    fetched,        \* the latest response given to getFile, and what it returned
    attendanceRecords \* localStorage 'attendanceRecords' (local)

clockVars == <<now, tz>>
formVars == <<statuses, notes, collection, typed>>
recapVars == <<filterDate, download, file>>
appVars == <<githubSettings, savedSettings, showSettings, isInitialized,
             recordsSha, scheduleSha, spinner>>
envVars == <<remote, failures, otherWrites>>
editorVars == <<showScheduleEditor, modalSchedule, newOfficerName>>

vars == <<variant, now, tz, today, records, schedule, scheduleIsDefault, statuses,
          notes, collection, typed, filterDate, alertMsg, op, download, file,
          githubSettings, savedSettings, showSettings, isInitialized, recordsSha,
          scheduleSha, spinner, calls, remote, edits, failures, otherWrites,
          showScheduleEditor, modalSchedule, newOfficerName, fetched,
          attendanceRecords>>

(***************************************************************************)
(* AttendanceForm: what a render derives                                   *)
(***************************************************************************)
\* today.getDay()
DayOfWeek(t) == getDay(t, tz)

\* today.toISOString().split('T')[0]
TodayDateString(t) == ISODate(t)

\* schedule[dayOfWeek] || []
OfficersOnDuty(sched, t) ==
    IF DayKey(DayOfWeek(t)) \in DOMAIN sched THEN sched[DayKey(DayOfWeek(t))] ELSE <<>>

\* every officer on duty marked Hadir
InitialStatuses(roster) == [n \in Range(roster) |-> Hadir]

\* a guard that finds no record of today whatever the records are
NeverRecorded(recs, t) == FALSE

\* existingRecords.some(record => record.date === todayDateString)
IsAlreadySubmitted(recs, t) ==
    \E i \in 1..Len(recs) : recs[i].date = TodayDateString(t)

\* a form that never takes today for submitted
notYetSubmitted == FALSE

officersOnDuty == OfficersOnDuty(schedule, today)
initialStatuses == InitialStatuses(officersOnDuty)
isAlreadySubmitted == IsAlreadySubmitted(records, today)

\* AttendanceForm is mounted
FormMounted == variant = "local" \/ isInitialized

\* AttendanceForm renders the form itself, not one of its two notices
FormShown ==
    /\ FormMounted
    /\ (variant = "github" => Len(officersOnDuty) > 0)
    /\ ~isAlreadySubmitted

\* the statuses after a render at instant t with schedule sched, given the
\* statuses st the handlers left: the github variant's effect sets them back
\* to the initial ones when the officers on duty are another array
RenderStatuses(st, sched, schedChanged, t) ==
    IF variant = "github" /\ (schedChanged \/ DayOfWeek(t) # DayOfWeek(today))
    THEN InitialStatuses(OfficersOnDuty(sched, t))
    ELSE st

\* statuses[name] || AttendanceStatus.Alpa
StatusOf(st, name) == IF name \in DOMAIN st THEN st[name] ELSE Alpa

\* officer data that ignores the statuses of the form
OfficerDataAllHadir(roster, st) ==
    [i \in 1..Len(roster) |-> [name |-> roster[i], status |-> Hadir]]

\* officersOnDuty.map(name => ({ name, status: statuses[name] || Alpa }))
OfficerData(roster, st) ==
    [i \in 1..Len(roster) |-> [name |-> roster[i], status |-> StatusOf(st, roster[i])]]

\* `${NAMA_HARI[dayOfWeek]} malam ${NAMA_HARI[(dayOfWeek + 1) % 7]}`
DayLabel(d) ==
    <<NAMA_HARI[d], SP, "m", "a", "l", "a", "m", SP, NAMA_HARI[(d + 1) % 7]>>

\* parseInt(collection, 10) || 0
CollectionAmount(coll) == IF isNaN(parseInt(coll)) THEN 0 ELSE parseInt(coll).val

\* the record handleSubmit creates
NewRecord ==
    [id         |-> ISOString(now),
     date       |-> TodayDateString(today),
     day        |-> DayLabel(DayOfWeek(today)),
     officers   |-> OfficerData(officersOnDuty, statuses),
     notes      |-> notes,
     collection |-> CollectionAmount(collection)]

(***************************************************************************)
(* The repository seen by the GitHub variant, and the files of the recap   *)
(***************************************************************************)
\* a schedule.json somebody edited: Monday's officers are A and B, no other
\* weekday has a list
SmallSchedule == [k \in {"1"} |-> << <<"A">>, <<"B">> >>]

InitialDataDocs == {AbsentDoc, Doc(StringifyRecords(<<>>))}

InitialScheduleDocs == {AbsentDoc, Doc(<<>>), Doc(StringifySchedule(SmallSchedule))}

\* a repository without the two documents, or with both
InitialRemotes ==
    {[data |-> AbsentDoc, schedule |-> AbsentDoc]}
    \cup [data : InitialDataDocs \ {AbsentDoc}, schedule : InitialScheduleDocs \ {AbsentDoc}]

\* a call of loadDataFromGithub or addRecord that awaits the response of the
\* request it sent: pc names the request, parent the caller that awaits the
\* call, init and form the closure of the handleSubmit that awaits it
Call(pc, parent, settings, updated, sha, init, form) ==
    [pc |-> pc, parent |-> parent, settings |-> settings, updated |-> updated,
     sha |-> sha, init |-> init, form |-> form]

\* loadDataFromGithub(settings) up to its first await
LoadCall(parent, settings, init, form) ==
    Call("getSchedule", parent, settings, <<>>, NoSha, init, form)

(***************************************************************************)
(* Initial states: the application after its first render and effects      *)
(***************************************************************************)
InitCommon ==
    /\ now = StartHour
    /\ tz \in TimeZones
    /\ today = now
    /\ records = <<>>
    /\ schedule = DEFAULT_JADWAL_RONDA
    /\ scheduleIsDefault = TRUE
    /\ notes = <<>>
    /\ collection = <<>>
    /\ typed = <<>>
    /\ filterDate = <<>>
    /\ alertMsg = AlertNone
    /\ op = "init"
    /\ download = [text |-> <<>>, records |-> <<>>]
    /\ file = <<>>
    /\ recordsSha = NoSha
    /\ scheduleSha = NoSha
    /\ isInitialized = FALSE
    /\ edits = 0
    /\ failures = 0
    /\ otherWrites = 0
    /\ showScheduleEditor = FALSE
    /\ modalSchedule = <<>>
    /\ newOfficerName = <<>>
    /\ fetched = <<>>

InitLocal ==
    /\ variant = "local"
    /\ InitCommon
    /\ statuses = InitialStatuses(OfficersOnDuty(JADWAL_RONDA, StartHour))
    /\ githubSettings = "null"
    /\ savedSettings = "null"
    /\ showSettings = FALSE
    /\ spinner = FALSE
    /\ calls = <<>>
    /\ remote = [data |-> AbsentDoc, schedule |-> AbsentDoc]
    /\ attendanceRecords = setItem(NoItem, StringifyCompact(records))

\* the mount effect reads localStorage: settings found are set (and the effect
\* on githubSettings starts a load), else the settings modal is shown
InitGithub ==
    /\ variant = "github"
    /\ InitCommon
    /\ statuses = <<>>
    /\ savedSettings \in {"null", "cred"}
    /\ githubSettings = savedSettings
    /\ showSettings = (savedSettings = "null")
    /\ spinner = (savedSettings # "null")
    /\ calls = IF savedSettings = "null" THEN <<>>
               ELSE <<LoadCall("none", savedSettings, <<>>, FALSE)>>
    /\ remote \in InitialRemotes
    /\ attendanceRecords = NoItem

Init == InitLocal \/ InitGithub

(***************************************************************************)
(* The clock                                                               *)
(***************************************************************************)
Tick ==
    /\ now - StartHour < MaxTicks * TickHours
    /\ calls = <<>>
    /\ now' = now + TickHours
    /\ op' = "other"
    /\ UNCHANGED <<variant, attendanceRecords, fetched, editorVars, tz, today, records, schedule, scheduleIsDefault, formVars,
                   recapVars, alertMsg, appVars, calls, envVars, edits>>

\* the clock passes midnight (UTC) once, while the page stays open: nothing
\* is rendered, so the form keeps the `today` of its last render
Midnight ==
    /\ now < StartHour + HoursPerDay
    /\ calls = <<>>
    /\ now' = (now \div HoursPerDay + 1) * HoursPerDay
    /\ op' = "other"
    /\ UNCHANGED <<variant, attendanceRecords, fetched, editorVars, tz, today, records,
                   schedule, scheduleIsDefault, formVars, recapVars, alertMsg,
                   appVars, calls, envVars, edits>>

(***************************************************************************)
(* AttendanceForm: the handlers of the fields                              *)
(***************************************************************************)
\* ({ ...prev, [name]: status })
WithStatus(st, name, status) ==
    [n \in (DOMAIN st) \cup {name} |-> IF n = name THEN status ELSE st[n]]

\* a handler of the form set its state: the form renders again
FormEdit(st, nt, coll) ==
    /\ FormShown
    /\ edits < MaxEdits
    /\ edits' = edits + 1
    /\ today' = now
    /\ statuses' = RenderStatuses(st, schedule, FALSE, now)
    /\ notes' = nt
    /\ collection' = coll
    /\ op' = "other"
    /\ UNCHANGED <<variant, attendanceRecords, fetched, editorVars, clockVars, records, schedule, scheduleIsDefault, recapVars,
                   alertMsg, appVars, calls, envVars>>

handleStatusChange(name, status) ==
    /\ statuses # WithStatus(statuses, name, status)
    /\ FormEdit(WithStatus(statuses, name, status), notes, collection)
    /\ UNCHANGED typed

setNotes(value) ==
    /\ notes # value
    /\ FormEdit(statuses, value, collection)
    /\ UNCHANGED typed

\* value: the text of the input after the user's keystroke
handleCollectionChange(value) ==
    /\ typed # value
    /\ typed' = value
    /\ IF collection = StripNonDigits(value)
       THEN /\ FormShown
            /\ edits < MaxEdits
            /\ edits' = edits + 1
            /\ op' = "other"
            /\ UNCHANGED <<variant, attendanceRecords, fetched, editorVars, clockVars, today, records, schedule,
                           scheduleIsDefault, statuses, notes, collection, recapVars,
                           alertMsg, appVars, calls, envVars>>
       ELSE FormEdit(statuses, notes, StripNonDigits(value))

(***************************************************************************)
(* AttendanceForm.handleSubmit                                             *)
(***************************************************************************)
\* the guard of handleSubmit: a submission for a day already recorded is
\* refused with an alert
SubmitRejected ==
    /\ isAlreadySubmitted
    /\ alertMsg' = AlertAlreadyFilled
    /\ op' = "handleSubmit"
    /\ UNCHANGED <<variant, attendanceRecords, fetched, editorVars, clockVars, today, records, schedule, scheduleIsDefault,
                   formVars, recapVars, appVars, calls, envVars, edits>>

\* an addRecord that keeps the new record only
addRecordOnly(prev, newRecord) == <<newRecord>>

\* an addRecord that puts the new record first
addRecordFirst(prev, newRecord) == <<newRecord>> \o prev

\* [...prev, record] of addRecord (both variants)
addRecord(prev, newRecord) == Append(prev, newRecord)

\* local variant: addRecord appends, the form is reset, the success is alerted
SubmitLocal ==
    /\ variant = "local"
    /\ ~isAlreadySubmitted
    /\ records' = addRecord(records, NewRecord)
    /\ statuses' = initialStatuses
    /\ notes' = <<>>
    /\ collection' = <<>>
    /\ typed' = <<>>
    /\ alertMsg' = AlertSaved
    /\ today' = now
    /\ op' = "handleSubmit"
    /\ attendanceRecords' = setItem(attendanceRecords, StringifyCompact(records'))
    /\ UNCHANGED <<variant, fetched, editorVars, clockVars, schedule, scheduleIsDefault, recapVars, appVars,
                   calls, envVars, edits>>

\* github variant, no settings: addRecord returns at once, the form is reset
SubmitNoSettings ==
    /\ variant = "github"
    /\ ~isAlreadySubmitted
    /\ githubSettings = "null"
    /\ LET changed == statuses # initialStatuses \/ notes # <<>> \/ collection # <<>>
       IN  /\ today' = IF changed THEN now ELSE today
           /\ statuses' = IF changed
                          THEN RenderStatuses(initialStatuses, schedule, FALSE, now)
                          ELSE statuses
    /\ notes' = <<>>
    /\ collection' = <<>>
    /\ typed' = <<>>
    /\ op' = "handleSubmit"
    /\ UNCHANGED <<variant, attendanceRecords, fetched, editorVars, clockVars, records, schedule, scheduleIsDefault, recapVars,
                   alertMsg, appVars, calls, envVars, edits>>

\* github variant: addRecord shows the spinner and sends the PUT of data.json
\* with the records of this render plus the new one; handleSubmit awaits it
SubmitGithub ==
    /\ variant = "github"
    /\ ~isAlreadySubmitted
    /\ githubSettings # "null"
    /\ Len(calls) < MaxCalls
    /\ spinner' = TRUE
    /\ calls' = Append(calls, Call("putRecord", "addRecord", githubSettings,
                                   addRecord(records, NewRecord), recordsSha,
                                   initialStatuses, TRUE))
    /\ op' = "handleSubmit"
    /\ UNCHANGED <<variant, attendanceRecords, fetched, editorVars, clockVars, today, records, schedule, scheduleIsDefault,
                   formVars, recapVars, alertMsg, githubSettings, savedSettings,
                   showSettings, isInitialized, recordsSha, scheduleSha, envVars, edits>>

\* the submit button is on the page, or the render the handler belongs to
\* showed the notice of a day already recorded
CanSubmit == FormMounted /\ (FormShown \/ isAlreadySubmitted)

\* handleSubmit of components/AttendanceForm.tsx
handleSubmitLocal ==
    /\ CanSubmit
    /\ variant = "local"
    /\ \/ SubmitRejected
       \/ SubmitLocal

\* handleSubmit of index.tsx
handleSubmit ==
    /\ CanSubmit
    /\ variant = "github"
    /\ \/ SubmitRejected
       \/ SubmitNoSettings
       \/ SubmitGithub

(***************************************************************************)
(* AttendanceRecap: the projection, the export and the import              *)
(***************************************************************************)
\* a comparison that puts the earlier date first
CompareByDateAsc(a, b) ==
    IF isNaN(DateGetTime(a.date)) \/ isNaN(DateGetTime(b.date)) THEN 0
    ELSE DateGetTime(a.date).val - DateGetTime(b.date).val

\* (a, b) => new Date(b.date).getTime() - new Date(a.date).getTime(); a NaN
\* result counts as 0 in Array.prototype.sort
CompareByDateDesc(a, b) ==
    IF isNaN(DateGetTime(a.date)) \/ isNaN(DateGetTime(b.date)) THEN 0
    ELSE DateGetTime(b.date).val - DateGetTime(a.date).val

\* x put into the sorted sequence after every element that does not have to
\* follow it
RECURSIVE InsertSorted(_, _)
InsertSorted(x, sorted) ==
    IF sorted = <<>> THEN <<x>>
    ELSE IF CompareByDateDesc(Head(sorted), x) > 0 THEN <<x>> \o sorted
    ELSE <<Head(sorted)>> \o InsertSorted(x, Tail(sorted))

\* [...recs].sort(compare): a stable sort
RECURSIVE SortByDateDesc(_)
SortByDateDesc(recs) ==
    IF recs = <<>> THEN <<>>
    ELSE InsertSorted(recs[Len(recs)], SortByDateDesc(SubSeq(recs, 1, Len(recs) - 1)))

\* recs.filter(record => record.date === d)
RECURSIVE FilterByDate(_, _)
FilterByDate(recs, d) ==
    IF recs = <<>> THEN <<>>
    ELSE (IF Head(recs).date = d THEN <<Head(recs)>> ELSE <<>>)
         \o FilterByDate(Tail(recs), d)

\* filteredRecords of the github variant: sort, then filter
FilteredRecordsGithub(recs, d) ==
    IF d = <<>> THEN SortByDateDesc(recs) ELSE FilterByDate(SortByDateDesc(recs), d)

\* filteredRecords of the local variant: filter, then sort
FilteredRecordsLocal(recs, d) ==
    IF d = <<>> THEN SortByDateDesc(recs) ELSE SortByDateDesc(FilterByDate(recs, d))

filteredRecords ==
    IF variant = "github" THEN FilteredRecordsGithub(records, filterDate)
    ELSE FilteredRecordsLocal(records, filterDate)

setFilterDate(d) ==
    /\ filterDate # d
    /\ filterDate' = d
    /\ op' = "other"
    /\ UNCHANGED <<variant, attendanceRecords, fetched, editorVars, clockVars, today, records, schedule, scheduleIsDefault,
                   formVars, download, file, alertMsg, appVars, calls, envVars, edits>>

\* the concatenation of the strings ss[lo], ..., ss[hi]
RECURSIVE Concat(_, _, _)
Concat(ss, lo, hi) ==
    IF lo > hi THEN <<>>
    ELSE IF lo = hi THEN ss[lo]
    ELSE Concat(ss, lo, (lo + hi) \div 2) \o Concat(ss, (lo + hi) \div 2 + 1, hi)

\* the two hex digits of the escape of a character that is not unreserved,
\* <<>> for a character encodeURIComponent leaves as it is
HexOf(c) ==
    CASE c = NL -> <<"0", "A">>    [] c = SP -> <<"2", "0">>
      [] c = QUOTE -> <<"2", "2">> [] c = "%" -> <<"2", "5">>
      [] c = "," -> <<"2", "C">>   [] c = "/" -> <<"2", "F">>
      [] c = ":" -> <<"3", "A">>   [] c = "[" -> <<"5", "B">>
      [] c = BSL -> <<"5", "C">>   [] c = "]" -> <<"5", "D">>
      [] c = "{" -> <<"7", "B">>   [] c = "}" -> <<"7", "D">>
      [] OTHER -> <<>>

\* the character two hex digits stand for, <<>> when they are no escape of
\* the table above
CharOf(h1, h2) ==
    CASE h1 = "0" /\ h2 = "A" -> <<NL>>    [] h1 = "2" /\ h2 = "0" -> <<SP>>
      [] h1 = "2" /\ h2 = "2" -> <<QUOTE>> [] h1 = "2" /\ h2 = "5" -> <<"%">>
      [] h1 = "2" /\ h2 = "C" -> <<",">>   [] h1 = "2" /\ h2 = "F" -> <<"/">>
      [] h1 = "3" /\ h2 = "A" -> <<":">>   [] h1 = "5" /\ h2 = "B" -> <<"[">>
      [] h1 = "5" /\ h2 = "C" -> <<BSL>>   [] h1 = "5" /\ h2 = "D" -> <<"]">>
      [] h1 = "7" /\ h2 = "B" -> <<"{">>   [] h1 = "7" /\ h2 = "D" -> <<"}">>
      [] OTHER -> <<>>

\* every character of s that is not unreserved becomes % and two hex digits
encodeURIComponent(s) ==
    Concat([i \in 1..Len(s) |->
              IF HexOf(s[i]) = <<>> THEN <<s[i]>> ELSE <<"%">> \o HexOf(s[i])],
           1, Len(s))

\* an escape starts at position i of s
EscapeAt(s, i) ==
    /\ i >= 1
    /\ i + 2 <= Len(s)
    /\ s[i] = "%"
    /\ CharOf(s[i + 1], s[i + 2]) # <<>>

\* the content of the file the browser saves for a data: URI of that
\* payload: every escape becomes its character again
PercentDecode(s) ==
    Concat([i \in 1..Len(s) |->
              IF EscapeAt(s, i) THEN CharOf(s[i + 1], s[i + 2])
              ELSE IF EscapeAt(s, i - 1) \/ EscapeAt(s, i - 2) THEN <<>>
              ELSE <<s[i]>>],
           1, Len(s))

\* the file of a data: URI whose payload is not encoded
DownloadedFileRaw(recs) == PercentDecode(StringifyRecords(recs))

\* the file data_ronda.json that handleDownload makes the browser save
DownloadedFile(recs) == PercentDecode(encodeURIComponent(StringifyRecords(recs)))

handleDownload ==
    /\ variant = "local"
    /\ download' = [text |-> DownloadedFile(records), records |-> records]
    /\ op' = "handleDownload"
    /\ UNCHANGED <<variant, attendanceRecords, fetched, editorVars, clockVars, today, records, schedule, scheduleIsDefault,
                   formVars, filterDate, file, alertMsg, appVars, calls, envVars, edits>>

\* an import that keeps the records the collection held
MergeRecords(prev, newRecords) == prev \o newRecords

\* handleSetRecords: setRecords(newRecords), whatever the records were
handleSetRecords(prev, newRecords) == newRecords

\* reader.onload of handleUpload, text the content of the chosen file
handleUpload(text) ==
    /\ variant = "local"
    /\ file' = text
    /\ op' = "handleUpload"
    /\ LET parsedData == JSONparse(text)
       IN  IF ~parsedData.ok
           THEN /\ alertMsg' = AlertBadJson
                /\ UNCHANGED <<records, today, statuses, attendanceRecords>>
           ELSE IF parsedData.kind = "arr"
           THEN /\ records' = handleSetRecords(records, parsedData.val)
                /\ alertMsg' = AlertImported
                /\ today' = now
                /\ statuses' = RenderStatuses(statuses, schedule, FALSE, now)
                /\ attendanceRecords' =
                      setItem(attendanceRecords, StringifyCompact(records'))
           ELSE /\ alertMsg' = AlertBadFormat
                /\ UNCHANGED <<records, today, statuses, attendanceRecords>>
    /\ UNCHANGED <<variant, fetched, editorVars, clockVars, schedule, scheduleIsDefault, notes, collection,
                   typed,
                   filterDate, download, appVars, calls, envVars, edits>>

\* the page of the local variant is loaded again: App is mounted with the
\* records its initializer reads from the storage, the effect on records
\* writes them back, and the form and the recap are in their first states
restart ==
    /\ variant = "local"
    /\ records' = savedRecordsOf(attendanceRecords)
    /\ attendanceRecords' = setItem(attendanceRecords, StringifyCompact(records'))
    /\ today' = now
    /\ statuses' = InitialStatuses(OfficersOnDuty(schedule, now))
    /\ notes' = <<>>
    /\ collection' = <<>>
    /\ typed' = <<>>
    /\ filterDate' = <<>>
    /\ file' = <<>>
    /\ alertMsg' = AlertNone
    /\ op' = "restart"
    /\ UNCHANGED <<variant, fetched, editorVars, clockVars, schedule, scheduleIsDefault,
                   download, appVars, calls, envVars, edits>>

(***************************************************************************)
(* The remote store: GET and PUT of a document of the repository           *)
(***************************************************************************)
\* the store accepts a PUT that creates the document (no token given) or
\* that carries the token of the content it holds
PutAccepted(doc, sha) ==
    IF doc.exists THEN sha = ShaOf(doc.text) ELSE sha = NoSha

\* a getFile that throws for a document that does not exist
GetFileStrict(doc, defaultContent) ==
    IF ~doc.exists THEN [kind |-> "throw", content |-> <<>>, sha |-> NoSha]
    ELSE IF doc.text = <<>>
         THEN [kind |-> "default", content |-> defaultContent, sha |-> ShaOf(doc.text)]
    ELSE LET parsed == JSONparse(doc.text)
         IN  IF parsed.ok
             THEN [kind |-> "parsed", content |-> parsed.val, sha |-> ShaOf(doc.text)]
             ELSE [kind |-> "throw", content |-> <<>>, sha |-> NoSha]

\* the reason phrase of a status
StatusText(status) == NatToChars(status) \o <<SP, "r", "e", "a", "s", "o", "n">>

\* the response of the store to a GET of doc: 404 when it does not exist,
\* else 200 with its content and the token of the content
StoreResponse(doc) ==
    IF doc.exists
    THEN [status |-> 200, statusText |-> StatusText(200), content |-> doc.text,
          sha |-> ShaOf(doc.text)]
    ELSE [status |-> 404, statusText |-> StatusText(404), content |-> <<>>,
          sha |-> NoSha]

\* response.ok
ResponseOk(response) == response.status >= 200 /\ response.status <= 299

\* what getFile returns or throws
Returned(kind, content, sha) ==
    [kind |-> kind, content |-> content, sha |-> sha, message |-> <<>>]
Thrown(message) ==
    [kind |-> "throw", content |-> <<>>, sha |-> NoSha, message |-> message]

\* a getFile that does not look at response.ok
getFileAnyStatus(response, defaultContent) ==
    IF response.status = 404 THEN Returned("null", <<>>, NoSha)
    ELSE IF response.content = <<>>
         THEN Returned("default", defaultContent, response.sha)
    ELSE LET parsed == JSONparse(response.content)
         IN  IF parsed.ok THEN Returned("parsed", parsed.val, response.sha)
             ELSE Thrown(<<"SyntaxError">>)

\* getFile, given the response of fetch: null for 404, an error with the
\* status text for another status that is not 2xx, the default for an empty
\* content, else the parsed content (JSON.parse throws for a text that is no
\* JSON)
getFile(response, defaultContent) ==
    IF response.status = 404 THEN Returned("null", <<>>, NoSha)
    ELSE IF ~ResponseOk(response)
         THEN Thrown(<<"Gagal mengambil file", ":", SP>> \o response.statusText)
    ELSE IF response.content = <<>>
         THEN Returned("default", defaultContent, response.sha)
    ELSE LET parsed == JSONparse(response.content)
         IN  IF parsed.ok THEN Returned("parsed", parsed.val, response.sha)
             ELSE Thrown(<<"SyntaxError">>)

\* what getFile returns for the response of the store to a GET of doc
GetFile(doc, defaultContent) == getFile(StoreResponse(doc), defaultContent)

\* the other calls in flight when call i ends or goes on
Without(i) == [j \in 1..(Len(calls) - 1) |-> IF j < i THEN calls[j] ELSE calls[j + 1]]

\* call i with its next request sent
Goto(i, pc) == [calls EXCEPT ![i].pc = pc]

(***************************************************************************)
(* App (github variant): what the end of a call leaves in the form         *)
(***************************************************************************)
\* a call whose handleSubmit still awaits it on the mounted form: when the
\* call returns, handleSubmit sets the form back with the initialStatuses of
\* its own render
ResetsForm(c) == c.parent = "addRecord" /\ c.form

\* the render after call c ended and isInitialized is true
EndOfCall(c, sched, schedChanged) ==
    /\ today' = now
    /\ statuses' =
         IF ~isInitialized THEN InitialStatuses(OfficersOnDuty(sched, now))
         ELSE RenderStatuses(IF ResetsForm(c) THEN c.init ELSE statuses,
                             sched, schedChanged, now)
    /\ notes' = IF ~isInitialized \/ ResetsForm(c) THEN <<>> ELSE notes
    /\ collection' = IF ~isInitialized \/ ResetsForm(c) THEN <<>> ELSE collection
    /\ typed' = IF ~isInitialized \/ ResetsForm(c) THEN <<>> ELSE typed

\* the render after App set a state of its own while the form is mounted or not
AppRender(sched, schedChanged) ==
    /\ today' = now
    /\ statuses' = IF isInitialized
                   THEN RenderStatuses(statuses, sched, schedChanged, now)
                   ELSE statuses

(***************************************************************************)
(* App.loadDataFromGithub                                                  *)
(***************************************************************************)
\* a catch of loadDataFromGithub that keeps the stored settings
LoadFailedKeepsStored(i) ==
    /\ alertMsg' = AlertLoadFailed
    /\ savedSettings' = savedSettings
    /\ githubSettings' = "null"
    /\ showSettings' = TRUE
    /\ spinner' = FALSE
    /\ isInitialized' = TRUE
    /\ calls' = Without(i)
    /\ EndOfCall(calls[i], schedule, FALSE)
    /\ UNCHANGED <<records, schedule, scheduleIsDefault, recordsSha, scheduleSha>>

\* catch and finally of loadDataFromGithub: the error is alerted, the
\* settings are cleared and asked for again
LoadFailed(i) ==
    /\ alertMsg' = AlertLoadFailed
    /\ savedSettings' = "null"
    /\ githubSettings' = "null"
    /\ showSettings' = TRUE
    /\ spinner' = FALSE
    /\ isInitialized' = TRUE
    /\ calls' = Without(i)
    /\ EndOfCall(calls[i], schedule, FALSE)
    /\ UNCHANGED <<records, schedule, scheduleIsDefault, recordsSha, scheduleSha>>

\* setSchedule(content), scheduleSha.current = sha, and the GET of data.json
ScheduleLoaded(i, content, isDefault, sha) ==
    /\ schedule' = content
    /\ scheduleIsDefault' = isDefault
    /\ scheduleSha' = sha
    /\ calls' = Goto(i, "getData")
    /\ AppRender(content, ~(isDefault /\ scheduleIsDefault))
    /\ UNCHANGED <<records, notes, collection, typed, alertMsg, githubSettings,
                   savedSettings, showSettings, isInitialized, recordsSha, spinner>>

\* a load that sets the records and keeps the token it held
RecordsLoadedOldToken(i, content, sha) ==
    /\ records' = content
    /\ recordsSha' = recordsSha
    /\ spinner' = FALSE
    /\ isInitialized' = TRUE
    /\ calls' = Without(i)
    /\ EndOfCall(calls[i], schedule, FALSE)
    /\ UNCHANGED <<schedule, scheduleIsDefault, alertMsg, githubSettings, savedSettings,
                   showSettings, scheduleSha>>

\* setRecords(content), recordsSha.current = sha, and the finally
RecordsLoaded(i, content, sha) ==
    /\ records' = content
    /\ recordsSha' = sha
    /\ spinner' = FALSE
    /\ isInitialized' = TRUE
    /\ calls' = Without(i)
    /\ EndOfCall(calls[i], schedule, FALSE)
    /\ UNCHANGED <<schedule, scheduleIsDefault, alertMsg, githubSettings, savedSettings,
                   showSettings, scheduleSha>>

\* the response to the GET of schedule.json
GetScheduleResponse(i) ==
    /\ calls[i].pc = "getSchedule"
    /\ LET got == GetFile(remote.schedule, DEFAULT_JADWAL_RONDA)
       IN  CASE got.kind = "null" ->
                  /\ calls' = Goto(i, "putSchedule")
                  /\ UNCHANGED <<today, records, schedule, scheduleIsDefault, formVars,
                                 alertMsg, appVars>>
             [] got.kind = "throw" -> LoadFailed(i)
             [] OTHER -> ScheduleLoaded(i, got.content, got.kind = "default", got.sha)
    /\ UNCHANGED envVars

\* the response to the PUT that creates schedule.json
PutScheduleResponse(i) ==
    /\ calls[i].pc = "putSchedule"
    /\ IF PutAccepted(remote.schedule, NoSha)
       THEN /\ remote' = [remote EXCEPT
                            !.schedule = Doc(StringifySchedule(DEFAULT_JADWAL_RONDA))]
            /\ ScheduleLoaded(i, DEFAULT_JADWAL_RONDA, TRUE, NoSha)
       ELSE /\ LoadFailed(i)
            /\ UNCHANGED remote
    /\ UNCHANGED <<failures, otherWrites>>

\* the response to the GET of data.json
GetDataResponse(i) ==
    /\ calls[i].pc = "getData"
    /\ LET got == GetFile(remote.data, <<>>)
       IN  CASE got.kind = "null" ->
                  /\ calls' = Goto(i, "putData")
                  /\ UNCHANGED <<today, records, schedule, scheduleIsDefault, formVars,
                                 alertMsg, appVars>>
             [] got.kind = "throw" -> LoadFailed(i)
             [] OTHER -> RecordsLoaded(i, got.content, got.sha)
    /\ UNCHANGED envVars

\* the response to the PUT that creates data.json
PutDataResponse(i) ==
    /\ calls[i].pc = "putData"
    /\ IF PutAccepted(remote.data, NoSha)
       THEN /\ remote' = [remote EXCEPT !.data = Doc(StringifyRecords(<<>>))]
            /\ RecordsLoaded(i, <<>>, NoSha)
       ELSE /\ LoadFailed(i)
            /\ UNCHANGED remote
    /\ UNCHANGED <<failures, otherWrites>>

(***************************************************************************)
(* App.addRecord                                                           *)
(***************************************************************************)
\* a catch of addRecord that sends the PUT again
SaveRetried(i) ==
    /\ alertMsg' = AlertSaveFailed
    /\ spinner' = TRUE
    /\ calls' = calls
    /\ UNCHANGED <<today, records, schedule, scheduleIsDefault, formVars,
                   githubSettings, savedSettings, showSettings, isInitialized,
                   recordsSha, scheduleSha>>

\* the catch of addRecord: the error is alerted and loadDataFromGithub is
\* called, which shows the spinner and sends the GET of schedule.json
SaveFailed(i) ==
    /\ alertMsg' = AlertSaveFailed
    /\ spinner' = TRUE
    /\ calls' = Goto(i, "getSchedule")
    /\ UNCHANGED <<today, records, schedule, scheduleIsDefault, formVars,
                   githubSettings, savedSettings, showSettings, isInitialized,
                   recordsSha, scheduleSha>>

\* the response to the PUT of data.json with the new record
PutRecordResponse(i) ==
    /\ calls[i].pc = "putRecord"
    /\ IF PutAccepted(remote.data, calls[i].sha)
       THEN /\ remote' = [remote EXCEPT !.data = Doc(StringifyRecords(calls[i].updated))]
            /\ recordsSha' = ShaOf(StringifyRecords(calls[i].updated))
            /\ records' = calls[i].updated
            /\ alertMsg' = AlertSaved
            /\ spinner' = FALSE
            /\ calls' = Without(i)
            /\ IF isInitialized THEN EndOfCall(calls[i], schedule, FALSE)
               ELSE UNCHANGED <<today, formVars>>
            /\ UNCHANGED <<schedule, scheduleIsDefault, githubSettings, savedSettings,
                           showSettings, isInitialized, scheduleSha>>
       ELSE /\ SaveFailed(i)
            /\ UNCHANGED remote
    /\ UNCHANGED <<failures, otherWrites>>

(***************************************************************************)
(* App.handleSaveSchedule                                                  *)
(***************************************************************************)
\* a catch of handleSaveSchedule that sets the schedule it could not save
ScheduleSaveFailedApplies(i) ==
    /\ alertMsg' = AlertScheduleSaveFailed
    /\ spinner' = TRUE
    /\ calls' = Goto(i, "getSchedule")
    /\ schedule' = calls[i].updated
    /\ UNCHANGED <<today, records, scheduleIsDefault, formVars,
                   githubSettings, savedSettings, showSettings, isInitialized,
                   recordsSha, scheduleSha, editorVars>>

\* the catch of handleSaveSchedule: the error is alerted and
\* loadDataFromGithub is called; the editor stays as it is
ScheduleSaveFailed(i) ==
    /\ alertMsg' = AlertScheduleSaveFailed
    /\ spinner' = TRUE
    /\ calls' = Goto(i, "getSchedule")
    /\ UNCHANGED <<today, records, schedule, scheduleIsDefault, formVars,
                   githubSettings, savedSettings, showSettings, isInitialized,
                   recordsSha, scheduleSha, editorVars>>

\* the response to the PUT of schedule.json with the edited schedule: on
\* success the token and the schedule are set, the editor is closed and
\* the success is alerted
SaveScheduleResponse(i) ==
    /\ calls[i].pc = "saveSchedule"
    /\ IF PutAccepted(remote.schedule, calls[i].sha)
       THEN /\ remote' = [remote EXCEPT
                            !.schedule = Doc(StringifySchedule(calls[i].updated))]
            /\ scheduleSha' = ShaOf(StringifySchedule(calls[i].updated))
            /\ schedule' = calls[i].updated
            /\ scheduleIsDefault' = FALSE
            /\ showScheduleEditor' = FALSE
            /\ modalSchedule' = <<>>
            /\ newOfficerName' = <<>>
            /\ alertMsg' = AlertScheduleSaved
            /\ spinner' = FALSE
            /\ calls' = Without(i)
            /\ AppRender(calls[i].updated, TRUE)
            /\ UNCHANGED <<records, notes, collection, typed, githubSettings,
                           savedSettings, showSettings, isInitialized, recordsSha>>
       ELSE /\ ScheduleSaveFailed(i)
            /\ UNCHANGED remote
    /\ op' = "response"
    /\ UNCHANGED <<variant, attendanceRecords, fetched, clockVars, recapVars, edits, failures, otherWrites>>

\* the request call i awaits is answered by the store
Respond(i) ==
    /\ op' = "response"
    /\ \/ GetScheduleResponse(i)
       \/ PutScheduleResponse(i)
       \/ GetDataResponse(i)
       \/ PutDataResponse(i)
       \/ PutRecordResponse(i)
    /\ UNCHANGED <<variant, attendanceRecords, fetched, editorVars, clockVars, recapVars, edits>>

\* the request call i awaits fails in transport: fetch rejects, or the
\* store answers with an error status
TransportFailure(i) ==
    /\ failures < MaxFailures
    /\ failures' = failures + 1
    /\ CASE calls[i].pc = "putRecord" -> SaveFailed(i) /\ UNCHANGED editorVars
         [] calls[i].pc = "saveSchedule" -> ScheduleSaveFailed(i)
         [] OTHER -> LoadFailed(i) /\ UNCHANGED editorVars
    /\ op' = "response"
    /\ UNCHANGED <<variant, attendanceRecords, fetched, clockVars, recapVars, edits, remote, otherWrites>>

(***************************************************************************)
(* App: the settings                                                       *)
(***************************************************************************)
\* handleSaveSettings and the effect on githubSettings: the settings are
\* stored, the page goes back to "loading" (AttendanceForm is unmounted) and
\* loadDataFromGithub is called
handleSaveSettings(settings) ==
    /\ variant = "github"
    /\ showSettings
    /\ Len(calls) < MaxCalls
    /\ savedSettings' = settings
    /\ githubSettings' = settings
    /\ showSettings' = FALSE
    /\ isInitialized' = FALSE
    /\ spinner' = TRUE
    /\ calls' = Append([j \in 1..Len(calls) |-> [calls[j] EXCEPT !.form = FALSE]],
                       LoadCall("none", settings, <<>>, FALSE))
    /\ today' = now
    /\ statuses' = <<>>
    /\ notes' = <<>>
    /\ collection' = <<>>
    /\ typed' = <<>>
    /\ op' = "other"
    /\ UNCHANGED <<variant, attendanceRecords, fetched, editorVars, clockVars, records, schedule, scheduleIsDefault, recapVars,
                   alertMsg, recordsSha, scheduleSha, envVars, edits>>

\* the settings button
openSettings ==
    /\ variant = "github"
    /\ isInitialized
    /\ ~showSettings
    /\ showSettings' = TRUE
    /\ AppRender(schedule, FALSE)
    /\ op' = "other"
    /\ UNCHANGED <<variant, attendanceRecords, fetched, editorVars, clockVars, records, schedule, scheduleIsDefault, notes,
                   collection, typed, recapVars, alertMsg, githubSettings, savedSettings,
                   isInitialized, recordsSha, scheduleSha, spinner, calls, envVars,
                   edits>>

\* onClose of the settings modal
closeSettings ==
    /\ variant = "github"
    /\ showSettings
    /\ githubSettings # "null"
    /\ showSettings' = FALSE
    /\ AppRender(schedule, FALSE)
    /\ op' = "other"
    /\ UNCHANGED <<variant, attendanceRecords, fetched, editorVars, clockVars, records, schedule, scheduleIsDefault, notes,
                   collection, typed, recapVars, alertMsg, githubSettings, savedSettings,
                   isInitialized, recordsSha, scheduleSha, spinner, calls, envVars,
                   edits>>

(***************************************************************************)
(* ScheduleEditorModal                                                     *)
(***************************************************************************)
WhiteSpace == {SP, NL}

\* String.prototype.trim
Trim(s) ==
    LET inked == {i \in 1..Len(s) : s[i] \notin WhiteSpace}
    IN  IF inked = {} THEN <<>>
        ELSE SubSeq(s, CHOOSE i \in inked : \A j \in inked : i <= j,
                       CHOOSE i \in inked : \A j \in inked : i >= j)

\* JSON.parse(JSON.stringify(initialSchedule))
ModalCopy(sched) == JSONparse(StringifySchedule(sched)).val

\* newOfficerName[dayIndex]?.trim(): undefined (here the empty text, falsy
\* as well) when nothing was typed for the day
TypedName(dayIndex) ==
    IF dayIndex \in DOMAIN newOfficerName THEN Trim(newOfficerName[dayIndex]) ELSE <<>>

\* the button "Ubah Jadwal": the modal is mounted with a copy of the schedule
openScheduleEditor ==
    /\ variant = "github"
    /\ isInitialized
    /\ ~showScheduleEditor
    /\ showScheduleEditor' = TRUE
    /\ modalSchedule' = ModalCopy(schedule)
    /\ newOfficerName' = <<>>
    /\ AppRender(schedule, FALSE)
    /\ op' = "other"
    /\ UNCHANGED <<variant, attendanceRecords, fetched, clockVars, records, schedule, scheduleIsDefault,
                   notes, collection, typed, recapVars, alertMsg, appVars, calls,
                   envVars, edits>>

\* onClose of the modal: it is unmounted, its state is lost
closeScheduleEditor ==
    /\ showScheduleEditor
    /\ showScheduleEditor' = FALSE
    /\ modalSchedule' = <<>>
    /\ newOfficerName' = <<>>
    /\ AppRender(schedule, FALSE)
    /\ op' = "other"
    /\ UNCHANGED <<variant, attendanceRecords, fetched, clockVars, records, schedule, scheduleIsDefault,
                   notes, collection, typed, recapVars, alertMsg, appVars, calls,
                   envVars, edits>>

\* onChange of the input of a day: ({ ...newOfficerName, [dayIndex]: value })
setNewOfficerName(dayIndex, value) ==
    /\ showScheduleEditor
    /\ newOfficerName' = [d \in (DOMAIN newOfficerName) \cup {dayIndex} |->
                             IF d = dayIndex THEN value ELSE newOfficerName[d]]
    /\ newOfficerName' # newOfficerName
    /\ op' = "other"
    /\ UNCHANGED <<variant, attendanceRecords, fetched, showScheduleEditor, modalSchedule, clockVars, today,
                   records, schedule, scheduleIsDefault, formVars, recapVars, alertMsg,
                   appVars, calls, envVars, edits>>

\* an addOfficer that appends whatever the list holds
AddedAnyway(sched, dayIndex, name) ==
    [sched EXCEPT ![DayKey(dayIndex)] = Append(sched[DayKey(dayIndex)], name)]

\* the schedule addOfficer sets for a name that is not blank, on a schedule
\* that has a list for the day
Added(sched, dayIndex, name) ==
    IF \E k \in 1..Len(sched[DayKey(dayIndex)]) : sched[DayKey(dayIndex)][k] = name
    THEN sched
    ELSE [sched EXCEPT ![DayKey(dayIndex)] = Append(sched[DayKey(dayIndex)], name)]

\* addOfficer(dayIndex): a blank name does nothing; schedule[dayIndex].includes
\* throws a TypeError when the schedule has no list for the day, and the
\* handler ends there; else the name is appended if the list does not hold
\* it, and the input of the day is emptied
addOfficer(dayIndex) ==
    /\ showScheduleEditor
    /\ edits < MaxEditorOps
    /\ edits' = edits + 1
    /\ op' = "addOfficer"
    /\ LET name == TypedName(dayIndex)
       IN  IF name = <<>> \/ DayKey(dayIndex) \notin DOMAIN modalSchedule
           THEN UNCHANGED <<modalSchedule, newOfficerName>>
           ELSE /\ modalSchedule' = Added(modalSchedule, dayIndex, name)
                /\ newOfficerName' =
                     IF modalSchedule' = modalSchedule THEN newOfficerName
                     ELSE [newOfficerName EXCEPT ![dayIndex] = <<>>]
    /\ UNCHANGED <<variant, attendanceRecords, fetched, showScheduleEditor, clockVars, today, records,
                   schedule, scheduleIsDefault, formVars, recapVars, alertMsg, appVars,
                   calls, envVars>>

\* a removal that takes the first entry of the list, whatever its name
RemovedFirst(list, name) == Tail(list)

\* newSchedule[dayIndex].filter(n => n !== name)
Removed(list, name) == SelectSeq(list, LAMBDA n : n # name)

\* removeOfficer(dayIndex, name), the button of a listed name (or of a name
\* the list held at the render the button belongs to)
removeOfficer(dayIndex, name) ==
    /\ showScheduleEditor
    /\ DayKey(dayIndex) \in DOMAIN modalSchedule
    /\ edits < MaxEditorOps
    /\ edits' = edits + 1
    /\ op' = "removeOfficer"
    /\ modalSchedule' = [modalSchedule EXCEPT ![DayKey(dayIndex)] =
                            Removed(modalSchedule[DayKey(dayIndex)], name)]
    /\ UNCHANGED <<variant, attendanceRecords, fetched, showScheduleEditor, newOfficerName, clockVars, today,
                   records, schedule, scheduleIsDefault, formVars, recapVars, alertMsg,
                   appVars, calls, envVars>>

\* handleSave of the editor, which awaits onSave(schedule), that is
\* handleSaveSchedule of App: nothing without settings, else the spinner
\* is shown and the PUT of schedule.json is sent with the schedule the
\* editor holds and the token App holds
handleSaveSchedule ==
    /\ variant = "github"
    /\ showScheduleEditor
    /\ IF githubSettings = "null"
       THEN UNCHANGED <<spinner, calls>>
       ELSE /\ Len(calls) < MaxCalls
            /\ spinner' = TRUE
            /\ calls' = Append(calls, Call("saveSchedule", "handleSaveSchedule",
                                           githubSettings, modalSchedule, scheduleSha,
                                           <<>>, FALSE))
    /\ op' = "handleSaveSchedule"
    /\ UNCHANGED <<variant, attendanceRecords, fetched, editorVars, clockVars, today, records, schedule,
                   scheduleIsDefault, formVars, recapVars, alertMsg, githubSettings,
                   savedSettings, showSettings, isInitialized, recordsSha, scheduleSha,
                   envVars, edits>>

(***************************************************************************)
(* Another session of the application that commits to the same data.json   *)
(***************************************************************************)
\* the record the other session submits for the date of instant t
OtherRecord(t) ==
    [id         |-> ISOString(t),
     date       |-> ISODate(t),
     day        |-> DayLabel(getDay(t, 0)),
     officers   |-> OfficerData(OfficersOnDuty(DEFAULT_JADWAL_RONDA, t),
                                InitialStatuses(OfficersOnDuty(DEFAULT_JADWAL_RONDA, t))),
     notes      |-> <<>>,
     collection |-> 0]

\* the other session's save of today's record is accepted (it has loaded the
\* content the store holds, in which today has no record)
OtherWriter ==
    /\ variant = "github"
    /\ otherWrites < MaxOtherWrites
    /\ remote.data.exists
    /\ LET got == GetFile(remote.data, <<>>)
       IN  /\ got.kind \in {"default", "parsed"}
           /\ ~IsAlreadySubmitted(got.content, now)
           /\ remote' = [remote EXCEPT
                           !.data = Doc(StringifyRecords(Append(got.content,
                                                                OtherRecord(now))))]
    /\ otherWrites' = otherWrites + 1
    /\ op' = "other"
    /\ UNCHANGED <<variant, attendanceRecords, fetched, editorVars, clockVars, today, records, schedule, scheduleIsDefault,
                   formVars, recapVars, alertMsg, appVars, calls, failures, edits>>

(***************************************************************************)
(* The application and its user                                            *)
(***************************************************************************)
\* the officers whose status the user changes: the last ones of the list
MarkedOfficers ==
    {officersOnDuty[i] : i \in {k \in 1..Len(officersOnDuty) :
                                   k > Len(officersOnDuty) - MaxMarked}}

\* the form, the store and the other session, for both variants
Next ==
    \/ Tick
    \/ \E name \in MarkedOfficers, status \in AttendanceStatus :
          handleStatusChange(name, status)
    \/ handleSubmitLocal
    \/ handleSubmit
    \/ \E i \in 1..Len(calls) : Respond(i)
    \/ handleSaveSettings("cred")
    \/ OtherWriter

Spec == Init /\ [][Next]_vars

(***************************************************************************)
(* The form of the local variant with all its fields                       *)
(***************************************************************************)
\* what the user types in the notes
NotesInputs == { <<"o", QUOTE, "k">> }

\* the texts of at most MaxTyped characters of a digit, a zero, a letter and
\* a minus sign
RECURSIVE Typed(_)
Typed(n) ==
    IF n = 0 THEN {<<>>}
    ELSE Typed(n - 1) \cup {Append(s, c) : s \in Typed(n - 1), c \in {"1", "0", "a", "-"}}

\* what the user types in the collection input
CollectionInputs ==
    Typed(MaxTyped)
    \cup { <<"1", "a", "2", "b", "3">>, <<"-", "5", "0", "0">>, <<"0", "0", "7">>,
           <<"5", "0", "0", "0", "0">> }

NextForm ==
    \/ Tick
    \/ \E name \in MarkedOfficers, status \in AttendanceStatus :
          handleStatusChange(name, status)
    \/ \E value \in NotesInputs : setNotes(value)
    \/ \E value \in CollectionInputs : handleCollectionChange(value)
    \/ handleSubmitLocal

SpecForm == InitLocal /\ [][NextForm]_vars

(***************************************************************************)
(* The recap of the local variant: filter, export and import               *)
(***************************************************************************)
\* a record of the night of instant t, as the application writes it for a
\* list of two officers
SampleRecord(t) ==
    [OtherRecord(t) EXCEPT
        !.officers = OfficerData(<< <<"A">>, <<"B">> >>, [n \in {<<"A">>} |-> Ijin])]

\* records of three nights, and a second record of the first of them whose
\* notes hold the characters JSON and the data: URI escape
SampleRecords ==
    { SampleRecord(StartHour), SampleRecord(StartHour + HoursPerDay),
      SampleRecord(StartHour - HoursPerDay),
      [SampleRecord(StartHour + 1) EXCEPT
          !.notes = <<QUOTE, BSL, NL, "%", "2", "2", ",", SP, "]">>,
          !.collection = 50000] }

\* the lists of at most n of these records
RECURSIVE ListsOf(_)
ListsOf(n) ==
    IF n = 0 THEN {<<>>}
    ELSE ListsOf(n - 1) \cup {Append(l, r) : l \in ListsOf(n - 1), r \in SampleRecords}

\* a list of three records in no order of their dates
UnsortedList ==
    << SampleRecord(StartHour), SampleRecord(StartHour + HoursPerDay),
       SampleRecord(StartHour - HoursPerDay) >>

\* the files of the lists the user imports to look at them in the recap
RecapFiles == {StringifyRecords(l) : l \in ListsOf(MaxListed) \cup {UnsortedList}}

\* the dates the user filters the recap by
FilterDates ==
    { <<>>, ISODate(StartHour), ISODate(StartHour + HoursPerDay),
      ISODate(StartHour + 2 * HoursPerDay) }

NextRecap ==
    \/ \E d \in FilterDates : setFilterDate(d)
    \/ \E text \in RecapFiles : handleUpload(text)

SpecRecap == InitLocal /\ [][NextRecap]_vars

\* files that are not JSON
BadJsonFiles ==
    { <<>>, <<"[", "{">>, <<"[", "1", ",", "]">>, <<"[", "]", "x">>,
      <<"d", "a", "t", "a">> }

\* files that are JSON, but no list
NonListFiles ==
    { <<"{", "}">>, <<"7">>, <<QUOTE, "x", QUOTE>>, <<"n", "u", "l", "l">>,
      <<"{", QUOTE, "a", QUOTE, ":", "[", "]", "}">> }

\* the files of lists of records the user imports
ImportFiles == {StringifyRecords(l) : l \in ListsOf(MaxImported) \cup {UnsortedList}}

\* the import of a file of the user's, of the latest export, and the export
NextImport ==
    \/ \E text \in BadJsonFiles \cup NonListFiles \cup ImportFiles : handleUpload(text)
    \/ handleUpload(download.text)
    \/ handleDownload

SpecImport == InitLocal /\ [][NextImport]_vars

(***************************************************************************)
(* The GitHub variant with requests that fail and the settings modal       *)
(***************************************************************************)
NextSession ==
    \/ handleSubmit
    \/ \E i \in 1..Len(calls) : Respond(i)
    \/ \E i \in 1..Len(calls) : TransportFailure(i)
    \/ handleSaveSettings("cred")
    \/ openSettings
    \/ closeSettings

SpecSession == InitGithub /\ [][NextSession]_vars

(***************************************************************************)
(* The schedule editor of the GitHub variant                               *)
(***************************************************************************)
\* the days whose lists the user edits: Sunday and Monday
EditedDays == {0, 1}

\* what the user types as the name of a new officer
NameInputs == { <<SP>>, <<"C">>, <<SP, "C", NL>>, <<"A">>, <<"C", SP, "D">> }

\* the names whose removal is asked for: the first two of the list and one
\* the lists do not hold
RemovedNames(dayIndex) ==
    IF DayKey(dayIndex) \in DOMAIN modalSchedule
    THEN {modalSchedule[DayKey(dayIndex)][k] :
            k \in (1..2) \cap (1..Len(modalSchedule[DayKey(dayIndex)]))} \cup {<<"Z">>}
    ELSE {}

NextEditor ==
    \/ \E i \in 1..Len(calls) : Respond(i)
    \/ openScheduleEditor
    \/ closeScheduleEditor
    \/ \E dayIndex \in EditedDays, value \in NameInputs : setNewOfficerName(dayIndex, value)
    \/ \E dayIndex \in EditedDays : addOfficer(dayIndex)
    \/ \E dayIndex \in EditedDays : \E name \in RemovedNames(dayIndex) :
          removeOfficer(dayIndex, name)

SpecEditor == InitGithub /\ [][NextEditor]_vars

(***************************************************************************)
(* The GitHub variant with the saves of the records and of the schedule    *)
(***************************************************************************)
\* a browser at UTC that holds settings
InitSchedule == InitGithub /\ tz = 0 /\ savedSettings = "cred"

\* the user edits Monday's list (adds "C" or removes a name) and saves; the
\* store refuses the saves that carry a token out of date
NextSchedule ==
    \/ handleSubmit
    \/ \E i \in 1..Len(calls) : Respond(i)
    \/ \E i \in 1..Len(calls) : SaveScheduleResponse(i)
    \/ openScheduleEditor
    \/ closeScheduleEditor
    \/ setNewOfficerName(1, <<"C">>)
    \/ (edits < MaxScheduleEdits /\ addOfficer(1))
    \/ \E name \in {n \in RemovedNames(1) : n \in Range(modalSchedule["1"])} :
          (edits < MaxScheduleEdits /\ removeOfficer(1, name))
    \/ handleSaveSchedule

SpecSchedule == InitSchedule /\ [][NextSchedule]_vars

(***************************************************************************)
(* The GitHub variant with saves that are refused and requests that fail   *)
(***************************************************************************)
\* no settings are saved here: after the load of the mount, every load is
\* the reload that follows a failed save
NextRecovery ==
    \/ handleSubmit
    \/ \E i \in 1..Len(calls) : Respond(i)
    \/ \E i \in 1..Len(calls) : SaveScheduleResponse(i)
    \/ \E i \in 1..Len(calls) : TransportFailure(i)
    \/ openScheduleEditor
    \/ handleSaveSchedule

SpecRecovery == InitSchedule /\ [][NextRecovery]_vars

(***************************************************************************)
(* Both variants with a collection that holds the record of an earlier day *)
(***************************************************************************)
\* the record of the night before
StoredRecords == << SampleRecord(StartHour - HoursPerDay) >>

\* the GitHub variant with settings, on a repository whose data.json holds
\* the record of the night before
InitStored ==
    /\ variant = "github"
    /\ InitCommon
    /\ statuses = <<>>
    /\ savedSettings = "cred"
    /\ githubSettings = savedSettings
    /\ showSettings = FALSE
    /\ spinner = TRUE
    /\ calls = <<LoadCall("none", savedSettings, <<>>, FALSE)>>
    /\ remote = [data |-> Doc(StringifyRecords(StoredRecords)),
                 schedule |-> Doc(StringifySchedule(SmallSchedule))]
    /\ attendanceRecords = NoItem

\* the files the user imports: no record, the record of the night before,
\* a record of today
StoreFiles ==
    { StringifyRecords(<<>>), StringifyRecords(StoredRecords),
      StringifyRecords(<< SampleRecord(StartHour) >>) }

\* submissions, imports (local variant), reloads and saves of the schedule
\* (GitHub variant), with requests that fail and another session that
\* writes to data.json
NextStore ==
    \/ handleSubmitLocal
    \/ \E text \in StoreFiles : handleUpload(text)
    \/ handleSubmit
    \/ \E i \in 1..Len(calls) : Respond(i)
    \/ \E i \in 1..Len(calls) : SaveScheduleResponse(i)
    \/ \E i \in 1..Len(calls) : TransportFailure(i)
    \/ OtherWriter
    \/ openScheduleEditor
    \/ \E name \in {n \in RemovedNames(1) : n \in Range(modalSchedule["1"])} :
          (edits < MaxScheduleEdits /\ removeOfficer(1, name))
    \/ handleSaveSchedule

SpecStore == (InitLocal \/ InitStored) /\ [][NextStore]_vars

(***************************************************************************)
(* The load of the mount, on repositories of every kind                    *)
(***************************************************************************)
\* data.json: absent, the empty list, the record of the night before, a
\* text that is no JSON
LoadDataDocs ==
    { AbsentDoc, Doc(StringifyRecords(<<>>)), Doc(StringifyRecords(StoredRecords)),
      Doc(<<"[", "{">>) }

\* schedule.json: absent, empty, a schedule, a text that is no JSON
LoadScheduleDocs == InitialScheduleDocs \cup { Doc(<<"{", "x">>) }

\* the GitHub variant with settings: the mount effect has called
\* loadDataFromGithub
InitLoad ==
    /\ variant = "github"
    /\ InitCommon
    /\ statuses = <<>>
    /\ savedSettings = "cred"
    /\ githubSettings = savedSettings
    /\ showSettings = FALSE
    /\ spinner = TRUE
    /\ calls = <<LoadCall("none", savedSettings, <<>>, FALSE)>>
    /\ remote \in [data : LoadDataDocs, schedule : LoadScheduleDocs]
    /\ attendanceRecords = NoItem

\* the one load of the behaviour is answered or fails; nothing is submitted
\* or saved, so no other load starts
NextLoad ==
    \/ \E i \in 1..Len(calls) : Respond(i)
    \/ \E i \in 1..Len(calls) : TransportFailure(i)
    \/ Tick

SpecLoad == InitLoad /\ [][NextLoad]_vars

(***************************************************************************)
(* Two sessions on the same data.json, over a midnight                     *)
(***************************************************************************)
\* this session submits and reloads, the other session commits its record
\* of the day, and the date changes once
NextMidnight ==
    \/ handleSubmit
    \/ \E i \in 1..Len(calls) : Respond(i)
    \/ OtherWriter
    \/ Tick
    \/ Midnight

SpecMidnight == InitSchedule /\ [][NextMidnight]_vars

(***************************************************************************)
(* The local variant and its storage, over restarts of the page            *)
(***************************************************************************)
\* what the storage holds under the key when the page is first loaded:
\* nothing, a storage the browser denies, an empty text, a text that is not
\* JSON, and the lists a session before has written
PersistedItems ==
    { NoItem, Blocked, Item(<<>>), Item(<<"[", "{">>),
      Item(StringifyCompact(<<>>)), Item(StringifyCompact(StoredRecords)),
      Item(StringifyCompact(<< SampleRecord(StartHour) >>)) }

\* the local variant after its first render and effects, on such a storage
InitPersist ==
    /\ variant = "local"
    /\ now = StartHour
    /\ tz \in TimeZones
    /\ today = now
    /\ \E item \in PersistedItems :
          /\ records = savedRecordsOf(item)
          /\ attendanceRecords = setItem(item, StringifyCompact(records))
    /\ schedule = DEFAULT_JADWAL_RONDA
    /\ scheduleIsDefault = TRUE
    /\ statuses = InitialStatuses(OfficersOnDuty(JADWAL_RONDA, StartHour))
    /\ notes = <<>>
    /\ collection = <<>>
    /\ typed = <<>>
    /\ filterDate = <<>>
    /\ alertMsg = AlertNone
    /\ op = "init"
    /\ download = [text |-> <<>>, records |-> <<>>]
    /\ file = <<>>
    /\ githubSettings = "null"
    /\ savedSettings = "null"
    /\ showSettings = FALSE
    /\ isInitialized = FALSE
    /\ recordsSha = NoSha
    /\ scheduleSha = NoSha
    /\ spinner = FALSE
    /\ calls = <<>>
    /\ remote = [data |-> AbsentDoc, schedule |-> AbsentDoc]
    /\ edits = 0
    /\ failures = 0
    /\ otherWrites = 0
    /\ showScheduleEditor = FALSE
    /\ modalSchedule = <<>>
    /\ newOfficerName = <<>>
    /\ fetched = <<>>

\* the files the user imports: no record, the record of the night before,
\* and three records, whose text is longer than the storage takes
PersistFiles ==
    { StringifyRecords(<<>>), StringifyRecords(StoredRecords),
      StringifyRecords(UnsortedList) }

NextPersist ==
    \/ handleSubmitLocal
    \/ \E text \in PersistFiles : handleUpload(text)
    \/ \E value \in NotesInputs : setNotes(value)
    \/ restart

SpecPersist == InitPersist /\ [][NextPersist]_vars

(***************************************************************************)
(* getFile on the responses a fetch can give                               *)
(***************************************************************************)
\* statuses of a response: 2xx, 404, and others
FetchStatuses == {199, 200, 201, 204, 299, 300, 304, 400, 401, 403, 404, 409, 422,
                  500, 503}

\* contents of a response: none, lists, a schedule, and a text that is no JSON
FetchContents ==
    { <<>>, StringifyRecords(<<>>), StringifyRecords(<<SampleRecord(StartHour)>>),
      StringifySchedule(SmallSchedule), <<"{">> }

FetchResponses ==
    { [status |-> st, statusText |-> StatusText(st), content |-> c, sha |-> ShaOf(c)] :
        st \in FetchStatuses, c \in FetchContents }

\* getFile(settings, path) whose fetch is answered by response
Fetch(response, defaultContent) ==
    /\ fetched' = [response |-> response, result |-> getFile(response, defaultContent)]
    /\ op' = "getFile"
    /\ UNCHANGED <<variant, attendanceRecords, editorVars, clockVars, today, records, schedule,
                   scheduleIsDefault, formVars, recapVars, alertMsg, appVars, calls,
                   envVars, edits>>

NextGetFile ==
    \E response \in FetchResponses, defaultContent \in {<<>>, DEFAULT_JADWAL_RONDA} :
       Fetch(response, defaultContent)

SpecGetFile == InitGithub /\ [][NextGetFile]_vars

(***************************************************************************)
(* Properties                                                              *)
(***************************************************************************)
Last(seq) == seq[Len(seq)]

\* recs holds a record of date d
HasRecordOf(recs, d) == \E i \in 1..Len(recs) : recs[i].date = d

\* this step is a submission that creates a record, and the record
SubmitCreatesRecord ==
    /\ op' = "handleSubmit"
    /\ IF variant = "local" THEN records' # records ELSE Len(calls') > Len(calls)

SubmittedRecord ==
    IF variant = "local" THEN Last(records') ELSE Last(Last(calls').updated)

\* this step is the response to the request of call i
Answered(i) ==
    /\ op' = "response"
    /\ \/ Len(calls') = Len(calls) /\ calls'[i] # calls[i]
       \/ Len(calls') = Len(calls) - 1 /\ calls' = Without(i)

\* the list of weekday w in schedule sched
RosterOf(sched, w) == IF DayKey(w) \in DOMAIN sched THEN sched[DayKey(w)] ELSE <<>>

\* "<name of weekday w> malam <name of weekday (w + 1) mod 7>"
LabelOf(w) == <<NAMA_HARI[w], SP, "m", "a", "l", "a", "m", SP, NAMA_HARI[(w + 1) % 7]>>

\* C1: a submit for a date that already has a record in the collection is
\* refused with the warning and creates no record: the collection, and the
\* saves in flight, are what they were
C1_DuplicateDateRejected ==
    [][(op' = "handleSubmit" /\ HasRecordOf(records, ISODate(today)))
         => /\ records' = records
            /\ Len(records') = Len(records)
            /\ calls' = calls
            /\ alertMsg' = AlertAlreadyFilled]_vars

C1_Witness ==
    /\ op = "handleSubmit"
    /\ alertMsg = AlertAlreadyFilled
    /\ HasRecordOf(records, ISODate(today))

\* C2: with submissions and no import, the collection in memory never holds
\* two records of one date, also when a second submit is made while the
\* save of the first is in flight
C2_OneRecordPerDate ==
    \A i, j \in 1..Len(records) : records[i].date = records[j].date => i = j

\* of two saves of one date that were in flight together, one is in the
\* collection and the other was refused by the store
C2_Witness ==
    /\ otherWrites = 0
    /\ \E i \in 1..Len(calls) :
          /\ calls[i].parent = "addRecord"
          /\ calls[i].pc # "putRecord"
          /\ HasRecordOf(records, Last(calls[i].updated).date)

\* C3: a save of data.json with a token that is not the token of the
\* document the store holds is refused and leaves the store as it is, the
\* failure is alerted and the reload starts; when the reload gets data.json,
\* the records in memory are the content of the document and the token held
\* is its token
C3_StaleSaveReloaded ==
    [][\A i \in 1..Len(calls) :
          Answered(i) =>
            /\ (/\ calls[i].pc = "putRecord"
                /\ remote.data.exists
                /\ calls[i].sha # ShaOf(remote.data.text))
               => /\ remote' = remote
                  /\ records' = records
                  /\ alertMsg' = AlertSaveFailed
                  /\ Len(calls') = Len(calls)
                  /\ calls'[i].pc = "getSchedule"
                  /\ calls'[i].parent = "addRecord"
            /\ (/\ calls[i].pc = "getData"
                /\ calls[i].parent = "addRecord"
                /\ remote.data.exists)
               => /\ remote' = remote
                  /\ IF remote.data.text = <<>> THEN records' = <<>>
                     ELSE StringifyRecords(records') = remote.data.text
                  /\ recordsSha' = ShaOf(remote.data.text)]_vars

\* the documents were there at the load; the save was refused because the
\* other session had committed since, and the reload has put its record and
\* the token of the document in memory
C3_Witness ==
    /\ schedule = SmallSchedule
    /\ alertMsg = AlertSaveFailed
    /\ op = "response"
    /\ calls = <<>>
    /\ otherWrites = 1
    /\ Len(records) = 1
    /\ StringifyRecords(records) = remote.data.text
    /\ recordsSha = ShaOf(remote.data.text)

\* C4: a GET that finds no document raises no alert and keeps the settings,
\* and the PUT of the default payload follows; when that PUT is answered the
\* document exists with the default payload and the default is in memory:
\* the built-in schedule for schedule.json, the empty list for data.json
C4_MissingDocumentCreated ==
    [][\A i \in 1..Len(calls) :
          Answered(i) =>
            /\ (calls[i].pc = "getSchedule" /\ ~remote.schedule.exists)
               => /\ alertMsg' = alertMsg
                  /\ githubSettings' = githubSettings
                  /\ calls' = [calls EXCEPT ![i].pc = "putSchedule"]
            /\ (calls[i].pc = "putSchedule" /\ ~remote.schedule.exists)
               => /\ alertMsg' = alertMsg
                  /\ schedule' = DEFAULT_JADWAL_RONDA
                  /\ remote'.schedule.exists
                  /\ remote'.schedule.text = StringifySchedule(DEFAULT_JADWAL_RONDA)
            /\ (calls[i].pc = "getData" /\ ~remote.data.exists)
               => /\ alertMsg' = alertMsg
                  /\ githubSettings' = githubSettings
                  /\ calls' = [calls EXCEPT ![i].pc = "putData"]
            /\ (calls[i].pc = "putData" /\ ~remote.data.exists)
               => /\ alertMsg' = alertMsg
                  /\ records' = <<>>
                  /\ isInitialized'
                  /\ remote'.data.exists
                  /\ remote'.data.text = <<"[", "]">>]_vars

\* the load found neither document: both exist now, the defaults are in
\* memory and nothing was alerted
C4_Witness ==
    /\ isInitialized
    /\ calls = <<>>
    /\ alertMsg = AlertNone
    /\ recordsSha = NoSha
    /\ scheduleSha = NoSha
    /\ records = <<>>
    /\ schedule = DEFAULT_JADWAL_RONDA
    /\ remote.data = Doc(<<"[", "]">>)
    /\ remote.schedule.exists

\* the characters of s that are digits, read as a decimal number
RECURSIVE DigitsValue(_, _)
DigitsValue(s, acc) ==
    IF s = <<>> THEN acc
    ELSE DigitsValue(Tail(s), IF IsDigit(Head(s)) THEN acc * 10 + DigitVal(Head(s))
                              ELSE acc)

\* the number of times x is in seq
Count(seq, x) == Cardinality({i \in 1..Len(seq) : seq[i] = x})

\* a and b hold the same records, each as many times
SameRecords(a, b) ==
    /\ Len(a) = Len(b)
    /\ \A i \in 1..Len(a) : Count(a, a[i]) = Count(b, a[i])

\* the date "YYYY-MM-DD" as the number YYYYMMDD
DateNumber(d) == DigitsToNat(SubSeq(d, 1, 4) \o SubSeq(d, 6, 7) \o SubSeq(d, 9, 10))

\* out is what the recap has to show of the records for the filter
RecapShows(out) ==
    IF filterDate # <<>>
    THEN /\ \A k \in 1..Len(out) : out[k].date = filterDate
         /\ Len(out) = Cardinality({i \in 1..Len(records) : records[i].date = filterDate})
         /\ \A i \in 1..Len(records) :
               records[i].date = filterDate
                 => Count(out, records[i]) = Count(records, records[i])
    ELSE /\ SameRecords(out, records)
         /\ \A k \in 1..(Len(out) - 1) :
               DateNumber(out[k].date) >= DateNumber(out[k + 1].date)

\* C5: the import of the file of an export puts back the collection the
\* export was made of: the same records with the same values in the same
\* order
C5_ExportImportRoundTrip ==
    [][(op' = "handleUpload" /\ download.text # <<>> /\ file' = download.text)
         => /\ records' = download.records
            /\ alertMsg' = AlertImported]_vars

\* an export of a list with the record whose notes need escapes was
\* imported again
C5_Witness ==
    /\ op = "handleUpload"
    /\ download.text # <<>>
    /\ file = download.text
    /\ records = download.records
    /\ \E i \in 1..Len(records) : records[i].collection = 50000

\* C6: with a filter date the recap shows the records of that date, all of
\* them and no other; with the empty filter it shows every record once, a
\* later date never after an earlier one. This holds for the projection of
\* either variant
C6_RecapProjection ==
    /\ RecapShows(FilteredRecordsGithub(records, filterDate))
    /\ RecapShows(FilteredRecordsLocal(records, filterDate))

\* three records that are not in the order of their dates, no filter
C6_Witness ==
    /\ records = UnsortedList
    /\ filterDate = <<>>
    /\ filteredRecords # records

\* C7: the collection of the record a submission creates is the number the
\* digits of the typed text form in their order, 0 when there is none, and
\* never negative
C7_CollectionAmountIsDigits ==
    [][(op' = "handleSubmit" /\ records' # records)
         => /\ Last(records').collection = DigitsValue(typed, 0)
            /\ Last(records').collection >= 0]_vars

\* "1a2b3" was stored as 123
C7_Witness ==
    /\ op = "handleSubmit"
    /\ records # <<>>
    /\ Last(records).collection = 123

\* C8: the officers of the record a submission creates are the officers of
\* the list of today's weekday, one entry each in the order of the list,
\* with the status the form holds for the officer (Alpa when the form holds
\* none)
C8_OfficersFollowRoster ==
    [][SubmitCreatesRecord
         => LET r == SubmittedRecord
                roster == RosterOf(schedule, getDay(today, tz))
            IN  /\ Len(r.officers) = Len(roster)
                /\ \A k \in 1..Len(roster) :
                      /\ r.officers[k].name = roster[k]
                      /\ r.officers[k].status =
                           IF roster[k] \in DOMAIN statuses THEN statuses[roster[k]]
                           ELSE Alpa]_vars

\* a save in flight of the record of list [A, B] with A Hadir and B Ijin
C8_Witness ==
    \E i \in 1..Len(calls) :
       /\ calls[i].pc = "putRecord"
       /\ Last(calls[i].updated).officers =
            << [name |-> <<"A">>, status |-> Hadir], [name |-> <<"B">>, status |-> Ijin] >>

\* C9: the day label of the record a submission creates names the weekday
\* of the date of the record and the weekday after it, and the officers are
\* those of the list of that weekday
C9_DayLabelMatchesDate ==
    [][SubmitCreatesRecord
         => LET r == SubmittedRecord
                w == WeekdayOfDate(r.date)
            IN  /\ r.day = LabelOf(w)
                /\ [k \in 1..Len(r.officers) |-> r.officers[k].name]
                     = RosterOf(schedule, w)]_vars

\* a record dated 2024-01-01, a Monday, with the label of Tuesday
C9_Witness ==
    \E i \in 1..Len(records) :
       /\ records[i].date = <<"2", "0", "2", "4", "-", "0", "1", "-", "0", "1">>
       /\ records[i].day = LabelOf(2)

\* C10: the import of a file that is not JSON, or that is JSON and no list,
\* alerts the error and leaves the collection as it was
C10_ImportFailsClosed ==
    [][op' = "handleUpload"
         => /\ file' \in BadJsonFiles => (records' = records /\ alertMsg' = AlertBadJson)
            /\ file' \in NonListFiles
                 => (records' = records /\ alertMsg' = AlertBadFormat)]_vars

\* a file that is JSON and no list was refused while records were there
C10_Witness ==
    /\ op = "handleUpload"
    /\ file \in NonListFiles
    /\ alertMsg = AlertBadFormat
    /\ records # <<>>

\* C11: the import of the file of a list leaves the collection equal to that
\* list: the collection written as JSON is the text of the file, whatever
\* the collection held before, two records of one date included
C11_ImportReplacesWholesale ==
    [][(op' = "handleUpload" /\ file' \in RecapFiles)
         => /\ StringifyRecords(records') = file'
            /\ alertMsg' = AlertImported]_vars

\* the collection after the import of a list of two different records of
\* one date
C11_Witness ==
    /\ op = "handleUpload"
    /\ Len(records) = 2
    /\ records[1] # records[2]
    /\ records[1].date = records[2].date
    /\ StringifyRecords(records) = file

\* recs is a prefix of longer, which holds one record more
IsFrontOf(recs, longer) ==
    /\ Len(longer) = Len(recs) + 1
    /\ \A k \in 1..Len(recs) : longer[k] = recs[k]

\* this step is the accepted save of the record of call i
SaveAccepted(i) ==
    /\ Answered(i)
    /\ calls[i].pc = "putRecord"
    /\ Len(calls') = Len(calls) - 1

\* C12: a submission that succeeds appends its record: the collection before
\* it is a prefix of the collection after it, which holds one record more as
\* its last; no stored record is changed, moved or removed
C12_AppendKeepsPrefix ==
    [][/\ (variant = "local" /\ op' = "handleSubmit" /\ records' # records)
            => IsFrontOf(records, records')
       /\ \A i \in 1..Len(calls) : SaveAccepted(i) => IsFrontOf(records, records')]_vars

\* the save of today's record was accepted: the collection is the record it
\* held, of the night before, and then the new record
C12_Witness ==
    /\ variant = "github"
    /\ op = "response"
    /\ alertMsg = AlertSaved
    /\ Len(records) = 2
    /\ records[1] = StoredRecords[1]
    /\ records[2].date = TodayDateString(now)

\* suffix is the end of seq
EndsWith(seq, suffix) ==
    /\ Len(suffix) <= Len(seq)
    /\ SubSeq(seq, Len(seq) - Len(suffix) + 1, Len(seq)) = suffix

\* C15: getFile returns null and throws nothing for status 404; for another
\* status outside 200..299 it throws an error whose message ends with the
\* status text, and returns no content; it returns a content and a token for
\* a status in 200..299 only
C15_GetFileClassifiesStatus ==
    fetched # <<>>
      => LET status == fetched.response.status
             result == fetched.result
         IN  /\ status = 404 => result = Returned("null", <<>>, NoSha)
             /\ (status # 404 /\ (status < 200 \/ status > 299))
                  => /\ result.kind = "throw"
                     /\ result.content = <<>>
                     /\ result.sha = NoSha
                     /\ EndsWith(result.message, fetched.response.statusText)
             /\ result.kind \in {"default", "parsed"}
                  => /\ status >= 200 /\ status <= 299
                     /\ result.sha = fetched.response.sha

\* getFile has thrown for a response of status 403 that has a content
C15_Witness ==
    /\ fetched # <<>>
    /\ fetched.response.status = 403
    /\ fetched.response.content # <<>>
    /\ fetched.result.kind = "throw"

\* the list the schedule has for a weekday, empty if unset
ListOf(sched, dayIndex) ==
    IF DayKey(dayIndex) \in DOMAIN sched THEN sched[DayKey(dayIndex)] ELSE <<>>

\* the list without its first entry equal to name
WithoutFirst(list, name) ==
    IF \E k \in 1..Len(list) : list[k] = name
    THEN LET k == CHOOSE j \in 1..Len(list) :
                    list[j] = name /\ \A h \in 1..(j - 1) : list[h] # name
         IN  SubSeq(list, 1, k - 1) \o SubSeq(list, k + 1, Len(list))
    ELSE list

\* C16: addOfficer(weekdayIndex, name), for every weekday and every schedule,
\* one in which the weekday has no list yet included: a blank or already
\* listed trimmed name leaves the schedule unchanged; any other trimmed name
\* is appended at the end of the list of the weekday, and the list of every
\* other weekday is unchanged.
C16_AddOfficerContract ==
    [][\A dayIndex \in EditedDays :
         addOfficer(dayIndex) =>
           LET name == TypedName(dayIndex)
               list == ListOf(modalSchedule, dayIndex)
           IN  IF name = <<>> \/ name \in Range(list)
               THEN modalSchedule' = modalSchedule
               ELSE /\ ListOf(modalSchedule', dayIndex) = Append(list, name)
                    /\ \A d \in 0..6 :
                         d # dayIndex =>
                           ListOf(modalSchedule', d) = ListOf(modalSchedule, d)]_vars

\* addOfficer has appended the trimmed name " C\n" to the list of Monday
C16_Witness ==
    /\ op = "addOfficer"
    /\ ListOf(modalSchedule, 1) # <<>>
    /\ Last(ListOf(modalSchedule, 1)) = <<"C">>
    /\ 1 \in DOMAIN newOfficerName
    /\ newOfficerName[1] = <<>>

\* C17: removeOfficer(weekdayIndex, name) removes the first (and only) entry
\* of the list of the weekday that equals name, keeps the other entries in
\* their order, leaves the list of every other weekday unchanged, and does
\* nothing when the list does not hold the name.
C17_RemoveOfficerContract ==
    [][\A dayIndex \in EditedDays : \A name \in RemovedNames(dayIndex) :
         removeOfficer(dayIndex, name) =>
           /\ ListOf(modalSchedule', dayIndex) =
                WithoutFirst(ListOf(modalSchedule, dayIndex), name)
           /\ name \notin Range(ListOf(modalSchedule', dayIndex))
           /\ \A d \in 0..6 :
                d # dayIndex => ListOf(modalSchedule', d) = ListOf(modalSchedule, d)
           /\ name \notin Range(ListOf(modalSchedule, dayIndex)) =>
                modalSchedule' = modalSchedule]_vars

\* removeOfficer has taken the second name of the default list of Monday:
\* the first and the third are now the first two
C17_Witness ==
    /\ op = "removeOfficer"
    /\ scheduleIsDefault
    /\ Len(ListOf(modalSchedule, 1)) = Len(DEFAULT_JADWAL_RONDA["1"]) - 1
    /\ modalSchedule["1"][1] = DEFAULT_JADWAL_RONDA["1"][1]
    /\ modalSchedule["1"][2] = DEFAULT_JADWAL_RONDA["1"][3]

\* C18: from the built-in default roster, after any sequence of addOfficer
\* and removeOfficer in the schedule editor, no list of a weekday holds the
\* same name twice.
C18_NamesUniqueWithinDay ==
    \A k \in DOMAIN modalSchedule :
        \A i, j \in 1..Len(modalSchedule[k]) :
            modalSchedule[k][i] = modalSchedule[k][j] => i = j

\* on the default roster "C" was added to Monday, typed again and its second
\* addition refused
C18_Witness ==
    /\ op = "addOfficer"
    /\ scheduleIsDefault
    /\ Len(ListOf(modalSchedule, 1)) = Len(DEFAULT_JADWAL_RONDA["1"]) + 1
    /\ Last(ListOf(modalSchedule, 1)) = <<"C">>
    /\ 1 \in DOMAIN newOfficerName
    /\ Trim(newOfficerName[1]) = <<"C">>

\* the document a call's pending request writes, "none" for a GET
PutTarget(c) ==
    CASE c.pc \in {"putRecord", "putData"} -> "data.json"
      [] c.pc \in {"saveSchedule", "putSchedule"} -> "schedule.json"
      [] OTHER -> "none"

\* C13: writes to one remote path are serialized: at no time are two PUT
\* requests for the same document (data.json, or schedule.json) of the
\* session in flight together, whatever the user does while a save is
\* pending.
C13_SavesSerialized ==
    \A i, j \in 1..Len(calls) :
        (i # j /\ PutTarget(calls[i]) # "none") =>
            PutTarget(calls[i]) # PutTarget(calls[j])

\* two PUTs of schedule.json are in flight: "Simpan Perubahan" was pressed
\* twice
C13_Witness ==
    /\ Len(calls) = 2
    /\ calls[1].pc = "saveSchedule"
    /\ calls[2].pc = "saveSchedule"
    /\ op = "handleSaveSchedule"

\* what a refused save of call i leaves: the alert, the records, the
\* schedule, the editor and the documents as they were, and the call at the
\* first request of its one reload
RejectedSaveEnds(i, alert) ==
    /\ alertMsg' = alert
    /\ records' = records
    /\ schedule' = schedule
    /\ modalSchedule' = modalSchedule
    /\ remote' = remote
    /\ Len(calls') = Len(calls)
    /\ calls'[i].pc = "getSchedule"
    /\ \A j \in 1..Len(calls) : j # i => calls'[j] = calls[j]

\* C20: a refused save is not retried: one addRecord or handleSaveSchedule
\* call sends one PUT of its payload; when the store refuses it the error is
\* alerted, the new record (or the edited schedule) is not put in the state
\* of App, and one reload is run.
C20_RejectedSaveNotRetried ==
    [][/\ \A i \in 1..Len(calls) :
            /\ (Respond(i) /\ calls[i].pc = "putRecord"
                    /\ ~PutAccepted(remote.data, calls[i].sha))
                 => RejectedSaveEnds(i, AlertSaveFailed)
            /\ (SaveScheduleResponse(i)
                    /\ ~PutAccepted(remote.schedule, calls[i].sha))
                 => RejectedSaveEnds(i, AlertScheduleSaveFailed)
       /\ (op' \in {"handleSubmit", "handleSaveSchedule"} /\ calls' # calls)
            => /\ Len(calls') = Len(calls) + 1
               /\ \A j \in 1..Len(calls) : calls'[j] = calls[j]
               /\ Last(calls').pc =
                    (IF op' = "handleSubmit" THEN "putRecord" ELSE "saveSchedule")
       /\ op' = "response"
            => \A j \in 1..Len(calls') :
                 calls'[j].pc \in {"putRecord", "saveSchedule"}
                   => \E k \in 1..Len(calls) : calls[k] = calls'[j]]_vars

\* the store has refused the PUT of the edited schedule: the failure is
\* alerted, the editor is still open and the call is at its reload
C20_Witness ==
    /\ op = "response"
    /\ alertMsg = AlertScheduleSaveFailed
    /\ showScheduleEditor
    /\ modalSchedule # schedule
    /\ \E i \in 1..Len(calls) :
          calls[i].parent = "handleSaveSchedule" /\ calls[i].pc = "getSchedule"

\* the request call i awaits is one of loadDataFromGithub
LoadRequest(i) == calls[i].pc \in {"getSchedule", "putSchedule", "getData", "putData"}

\* the store's answer to the load request of call i makes getFile or
\* updateFile throw
LoadRequestRefused(i) ==
    CASE calls[i].pc = "getSchedule" ->
           GetFile(remote.schedule, DEFAULT_JADWAL_RONDA).kind = "throw"
      [] calls[i].pc = "getData" -> GetFile(remote.data, <<>>).kind = "throw"
      [] calls[i].pc = "putSchedule" -> ~PutAccepted(remote.schedule, NoSha)
      [] calls[i].pc = "putData" -> ~PutAccepted(remote.data, NoSha)
      [] OTHER -> FALSE

\* C14: when a load from the remote store fails (a failed fetch of
\* schedule.json or data.json), the stored credentials are cleared from the
\* local persistence and from memory and the settings prompt is shown; so
\* it is for the reload that follows a failed save.
C14_FailedLoadClearsCredentials ==
    [][\A i \in 1..Len(calls) :
         (LoadRequest(i)
            /\ (TransportFailure(i) \/ (Respond(i) /\ LoadRequestRefused(i))))
           => /\ savedSettings' = "null"
              /\ githubSettings' = "null"
              /\ showSettings' = TRUE
              /\ alertMsg' = AlertLoadFailed
              /\ Len(calls') = Len(calls) - 1]_vars

\* a record was saved, so the load of the mount had ended; a later save
\* failed and its reload failed: the settings are cleared and asked for
C14_Witness ==
    /\ op = "response"
    /\ alertMsg = AlertLoadFailed
    /\ records # <<>>
    /\ failures > 0
    /\ savedSettings = "null"
    /\ githubSettings = "null"
    /\ showSettings

\* every date that has a record before the step has one after it
DatesKept ==
    \A k \in 1..Len(records) : HasRecordOf(records', records[k].date)

\* C19: Submitted is terminal for a date: once a record of date D is in the
\* collection, one is in it after every later operation of the application
\* (submit, import, reload, schedule save).
C19_SubmittedIsTerminal == [][DatesKept]_vars

\* C19, amended: once a record of date D is in the collection, one is in it
\* after every later submission, reload and schedule save; an import
\* replaces the collection, and D is Submitted after it iff the imported
\* list holds a record of D.
C19_SubmittedUntilImport ==
    [][/\ op' # "handleUpload" => DatesKept
       /\ (op' = "handleUpload" /\ alertMsg' = AlertImported)
            => \A d \in {TodayDateString(now), StoredRecords[1].date} :
                 HasRecordOf(records', d)
                   <=> HasRecordOf(JSONparse(file').val, d)]_vars

\* today was submitted, another session's record was in the document, and the
\* schedule was saved afterwards: today is still Submitted
C19_Witness ==
    /\ op = "response"
    /\ alertMsg = AlertScheduleSaved
    /\ HasRecordOf(records, TodayDateString(now))
    /\ HasRecordOf(records, StoredRecords[1].date)

\* C21: the busy indicator covers every remote interaction: in every state
\* in which a request of a load, of addRecord or of handleSaveSchedule is in
\* flight the spinner is shown, also when operations overlap and when a
\* reload runs in the recovery of a failed save.
C21_SpinnerCoversRequests == calls # <<>> => spinner

\* the save of the record was answered and its finally has hidden the
\* spinner while the PUT of the schedule is still in flight
C21_Witness ==
    /\ op = "response"
    /\ alertMsg = AlertSaved
    /\ ~spinner
    /\ Len(calls) = 1
    /\ calls[1].pc = "saveSchedule"

\* the schedule, the records and the two tokens are those of the mount,
\* before the load
AsBeforeLoad ==
    /\ schedule = DEFAULT_JADWAL_RONDA
    /\ scheduleIsDefault
    /\ scheduleSha = NoSha
    /\ records = <<>>
    /\ recordsSha = NoSha

\* C22: a load that fails applies nothing: when it fails at any step (a
\* transport error on either document, a content that is no JSON) the error
\* is alerted and the schedule, the records and the two tokens in memory are
\* as they were before the load started.
C22_FailedLoadAppliesNothing == alertMsg = AlertLoadFailed => AsBeforeLoad

\* the load failed on a schedule.json that is no JSON: nothing was applied
C22_Witness ==
    /\ op = "response"
    /\ alertMsg = AlertLoadFailed
    /\ failures = 0
    /\ remote.schedule = Doc(<<"{", "x">>)
    /\ AsBeforeLoad

\* C23: the Alpa fallback is never exercised: in every state in which the
\* form is shown and can be submitted, statuses has an entry for every
\* officer of today's roster.
C23_StatusesCoverRoster ==
    FormShown => \A k \in 1..Len(officersOnDuty) : officersOnDuty[k] \in DOMAIN statuses

\* a record was created with an officer stored as Alpa whom the user had not
\* marked so
C23_Witness ==
    /\ op = "handleSubmit"
    /\ calls # <<>>
    /\ Last(calls).pc = "putRecord"
    /\ \E k \in 1..Len(Last(Last(calls).updated).officers) :
          LET o == Last(Last(calls).updated).officers[k]
          IN  o.status = Alpa /\ o.name \notin DOMAIN statuses

\* the records a reader of data.json gets from the store
RemoteRecords(store) == GetFile(store.data, <<>>).content

\* C24: with several sessions that write data.json, a write made from a
\* version that is out of date never overwrites the newer content: a save of
\* addRecord changes the document only if the document is the version the
\* session holds the token of, and then every record the document held is
\* still in it.
C24_StaleWriteNeverOverwrites ==
    [][\A i \in 1..Len(calls) :
         (Respond(i) /\ calls[i].pc = "putRecord") =>
           IF remote.data.exists /\ calls[i].sha = ShaOf(remote.data.text)
           THEN \A k \in 1..Len(RemoteRecords(remote)) :
                  \E j \in 1..Len(RemoteRecords(remote')) :
                     RemoteRecords(remote')[j] = RemoteRecords(remote)[k]
           ELSE remote' = remote /\ alertMsg' = AlertSaveFailed]_vars

\* the other session's record of today is in the document, after the record
\* of the night before; the save this session sent from the older version
\* was refused
C24_Witness ==
    /\ op = "response"
    /\ alertMsg = AlertSaveFailed
    /\ otherWrites = 1
    /\ Len(RemoteRecords(remote)) = 2
    /\ RemoteRecords(remote)[1] = StoredRecords[1]
    /\ RemoteRecords(remote)[2] = OtherRecord(now)
    /\ Len(records) = 1

\* this step ends the reload that follows the failed save of call i
ReloadEnds(i) ==
    /\ Respond(i)
    /\ calls[i].parent = "addRecord"
    /\ calls[i].pc \in {"getData", "putData"}
    /\ Len(calls') = Len(calls) - 1
    /\ alertMsg' = alertMsg

C26_TokensCurrentAfterLoad ==
    (calls = <<>> /\ isInitialized /\ alertMsg # AlertLoadFailed)
        => /\ remote.data.exists /\ recordsSha = ShaOf(remote.data.text)
           /\ remote.schedule.exists /\ scheduleSha = ShaOf(remote.schedule.text)

\* the load created data.json; the first save after it carried no token and
\* was refused
C26_Witness ==
    /\ op = "response"
    /\ alertMsg = AlertSaveFailed
    /\ Len(calls) = 1
    /\ calls[1].parent = "addRecord"
    /\ calls[1].pc = "getSchedule"
    /\ calls[1].sha = NoSha
    /\ remote.data = Doc(StringifyRecords(<<>>))
    /\ records = <<>>

\* C27: the edits of the schedule editor are isolated from the schedule of
\* App: addOfficer and removeOfficer leave the schedule in memory, and so
\* the list of today's officers in the form, unchanged until a save of the
\* edited schedule succeeds; closing the editor and a refused save never
\* apply the edits.
C27_EditorIsolated ==
    [][/\ op' \in {"addOfficer", "removeOfficer", "handleSaveSchedule", "other"}
            => /\ schedule' = schedule
               /\ OfficersOnDuty(schedule', today) = OfficersOnDuty(schedule, today)
       /\ \A i \in 1..Len(calls) :
            /\ SaveScheduleResponse(i) =>
                 IF PutAccepted(remote.schedule, calls[i].sha)
                 THEN schedule' = calls[i].updated
                 ELSE schedule' = schedule /\ remote' = remote
            /\ (Respond(i) /\ schedule' # schedule) =>
                 /\ calls[i].pc \in {"getSchedule", "putSchedule"}
                 /\ schedule' = GetFile(remote'.schedule, DEFAULT_JADWAL_RONDA).content]_vars

\* a name was added or removed in the editor and the editor was closed
\* without a save: the schedule of App and the document are as they were
C27_Witness ==
    /\ op = "other"
    /\ ~showScheduleEditor
    /\ edits = 1
    /\ calls = <<>>
    /\ alertMsg = AlertNone
    /\ schedule \in {DEFAULT_JADWAL_RONDA, SmallSchedule}
    /\ schedule = GetFile(remote.schedule, DEFAULT_JADWAL_RONDA).content

\* C28: in the local variant the storage mirrors the memory: after every
\* change of the collection (a submission, an import) the item under the key
\* 'attendanceRecords' is the JSON text of the collection, so that a restart
\* brings back exactly the collection (a storage the browser denies holds no
\* item and is left aside).
C28_PersistedMirrorsMemory ==
    (variant = "local" /\ attendanceRecords.kind # "blocked")
        => attendanceRecords = Item(StringifyCompact(records))

\* an import has replaced the collection and the storage holds another list
C28_Witness ==
    /\ op = "handleUpload"
    /\ alertMsg = AlertImported
    /\ records = UnsortedList
    /\ attendanceRecords.kind = "string"
    /\ JSONparse(attendanceRecords.text).ok
    /\ JSONparse(attendanceRecords.text).val # records

\* C29: no submission is dropped in silence: a submission that passes the
\* guard of the duplicate date either sends its save, or puts its record
\* into the collection, or alerts an error; and the save it sent ends with
\* the record in the collection or with the alert of the failure. This
\* includes the state after a failed load, in which the settings are
\* cleared while the form is shown.
C29_NoSilentDrop ==
    [][/\ (handleSubmit /\ ~isAlreadySubmitted) =>
            \/ /\ Len(calls') = Len(calls) + 1
               /\ Last(calls').pc = "putRecord"
            \/ HasRecordOf(records', TodayDateString(today))
            \/ alertMsg' # alertMsg
       /\ \A i \in 1..Len(calls) :
            ((Respond(i) \/ TransportFailure(i)) /\ calls[i].pc = "putRecord") =>
                \/ records' = calls[i].updated
                \/ alertMsg' = AlertSaveFailed]_vars

\* the form was submitted after a failed load: no settings, no request, no
\* record of the date, and the latest alert is still that of the load
C29_Witness ==
    /\ op = "handleSubmit"
    /\ githubSettings = "null"
    /\ isInitialized
    /\ calls = <<>>
    /\ alertMsg = AlertLoadFailed
    /\ ~HasRecordOf(records, TodayDateString(today))

=============================================================================
